---- MODULE Spec2Model ----
(***************************************************************************)
(* patoka: worker controller, controller pool and task tree.               *)
(*                                                                         *)
(* Every actor handles one message at a time, so each handler is one       *)
(* action.  A handler is written as an operator from the actor's record    *)
(* to the actor's record after the handler; what the handler sends         *)
(* (do_send) is appended to the out_* fields of the record, which hold the *)
(* messages emitted by the latest handler.  hist is written by each        *)
(* specification's observer from the step it sees, never by a handler.     *)
(***************************************************************************)
EXTENDS Integers, Sequences, FiniteSets, TLC

VARIABLES
    env,          \* configuration: general.external_worker, general.simple_protocol
    controllers,  \* the WorkerController actors, by address (1..Len)
    pool,         \* the ControllerPool and the position of the next() in progress
    tree,         \* the TaskTree actor
    tracker,      \* the TaskTracker actor
    assistant,    \* the TaskAssistant actor and its pending restart timers
    reprocessor,  \* the TaskReprocessor actor
    transport,    \* routers, connectors, router registry and the sockets between them
    timeout_actor,  \* the TimeoutActor, its two Timers and the futures of its context
    link,         \* a define_link! pair of maps with their locks, and the threads using it
    error_handler,  \* the TaskErrorHandler of one task, with what its last check sent
    app_state,    \* the AppState system service
    processor,    \* the TaskProcessor actor, with its mailbox
    reprocessor_mailbox,
                  \* the messages sent to the TaskReprocessor, not yet handled
    hist          \* what an observer of the steps has recorded

\* The actors of the later sections; a specification that does not run them
\* leaves them as constructed.
rest == <<reprocessor, transport, timeout_actor, link, error_handler, app_state,
          processor, reprocessor_mailbox>>

vars == <<env, controllers, pool, tree, tracker, assistant, rest, hist>>

(***************************************************************************)
(* Bounds of the model.                                                    *)
(***************************************************************************)
NumTasks == 2
MaxRequests == 2
CounterCap == 2

Tasks == 1..NumTasks

\* The empty task uuid (String::new()).
NoTask == 0

\* The wire names a message's plugin field takes (WorkerPlugin::as_str).
PluginNames == {"basic", "headless_browser", "none"}

\* details.name is absent from a plugin_ready message.
NoName == "<absent>"

Subjects ==
    {"Started", "Ready", "PluginReady", "Error", "HeartbeatResponse",
     "ControlResponse"}

Min(a, b) == IF a < b THEN a ELSE b

Bump(n) == Min(n + 1, CounterCap)

(***************************************************************************)
(* worker/plugin.rs                                                        *)
(***************************************************************************)
WorkerPlugin_from_str(s) ==
    CASE s = "basic" -> "Basic"
      [] s = "headless_browser" -> "HeadlessBrowser"
      [] OTHER -> "None"

WorkerPlugin_as_str(p) ==
    CASE p = "Basic" -> "basic"
      [] p = "HeadlessBrowser" -> "headless_browser"
      [] OTHER -> "none"

setup_plugin_message(plugin, worker_id) ==
    [dest |-> "Worker", worker_id |-> worker_id, task_uuid |-> NoTask,
     plugin |-> WorkerPlugin_as_str(plugin), data |-> "setup_plugin", id |-> 0]

(***************************************************************************)
(* Messages.                                                               *)
(***************************************************************************)
\* A task client's request (GenTaskDefinition::make_message); id tells the
\* requests apart and numbers them in the order they reach the controller.
TaskMessage(worker_id, task_uuid, plugin_name, id) ==
    [dest |-> "Worker", worker_id |-> worker_id, task_uuid |-> task_uuid,
     plugin |-> plugin_name, data |-> "task", id |-> id]

\* A worker's reply to a task client.
ClientMessage(worker_id, task_uuid, id) ==
    [dest |-> "Client", worker_id |-> worker_id, task_uuid |-> task_uuid,
     plugin |-> "none", data |-> "reply", id |-> id]

\* A controller <-> worker message (ControllerMessage::new(..).into()).
ControllerMessage(worker_id, subject) ==
    [dest |-> "Worker", worker_id |-> worker_id, task_uuid |-> NoTask,
     plugin |-> "none", data |-> subject, id |-> 0]

\* create_control_request(id, ControlMessage::request(task, task, "stop_task"))
StopTaskRequest(worker_id, task_uuid) ==
    [dest |-> "Worker", worker_id |-> worker_id, task_uuid |-> task_uuid,
     plugin |-> "none", data |-> "stop_task", id |-> 0]

(***************************************************************************)
(* worker/state.rs                                                         *)
(***************************************************************************)
WorkerState_set(c, state) == [c EXCEPT !.state = state]

\* ready() also tells the task reprocessor that the worker is ready.
WorkerState_ready(c) ==
    [WorkerState_set(c, "Ready") EXCEPT !.out_reprocessor = Append(@, c.id)]

WorkerState_busy(c) == WorkerState_set(c, "Busy")

WorkerState_is_plugin(c, plugin) == c.plugin = plugin

WorkerState_plugin(c, plugin) == [c EXCEPT !.plugin = plugin]

(***************************************************************************)
(* worker/controller.rs                                                    *)
(***************************************************************************)
\* transport/message.rs: new_identity(), the empty identity
NewIdentity == ""

\* The ZMQ identity the router has put on every message of the worker.
WorkerIdentity == "worker"

WorkerController_new(id) ==
    [id |-> id,
     actor_started |-> FALSE,
     active_clients |-> {},
     identity |-> NewIdentity,
     state |-> "Initial",
     plugin |-> "None",
     delayed_worker_messages |-> <<>>,
     delayed_client_messages |-> <<>>,
     reserved_tasks |-> {},
     external_worker |-> env.external_worker,
     simple_protocol |-> env.simple_protocol,
     \* HeartbeatResponseReceivedMessage waiting in the own mailbox
     alive_pending |-> FALSE,
     heartbeat_interval_timer |-> FALSE,
     heartbeat_timeout_timer |-> FALSE,
     \* worker_process is Some(child)
     worker_process |-> FALSE,
     \* what the latest handler sent and returned
     out_worker |-> <<>>,
     out_client |-> <<>>,
     out_reprocessor |-> <<>>,
     out_result |-> FALSE,
     \* the child processes the latest handler killed and spawned
     out_killed |-> 0,
     out_spawned |-> 0]

\* What a handler starts from: nothing sent yet.
Begin(c) ==
    [c EXCEPT !.out_worker = <<>>, !.out_client = <<>>,
              !.out_reprocessor = <<>>, !.out_result = FALSE,
              !.out_killed = 0, !.out_spawned = 0]

send_message_to_worker(c, msg) ==
    [c EXCEPT !.out_worker = Append(@, msg)]

send_urgent_message_to_worker(c, msg) == send_message_to_worker(c, msg)

\* put_message_to_delayed_queue that takes the queue of the replies.
put_message_to_delayed_client_queue(c, msg) ==
    [c EXCEPT !.delayed_client_messages = Append(@, msg)]

put_message_to_delayed_queue(c, msg) ==
    [c EXCEPT !.delayed_worker_messages = Append(@, msg)]

is_reserved_for_task(c, task_uuid) == task_uuid \in c.reserved_tasks

\* reserve_for_task that forgets the earlier reservations.
reserve_for_task_only(c, task_uuid) ==
    [c EXCEPT !.reserved_tasks = {task_uuid}]

reserve_for_task(c, task_uuid) ==
    [c EXCEPT !.reserved_tasks = @ \cup {task_uuid}]

\* setup_worker_plugin that leaves the worker state as it is.
setup_worker_plugin_idle(c, plugin) ==
    send_urgent_message_to_worker(c, setup_plugin_message(plugin, c.id))

setup_worker_plugin(c, plugin) ==
    WorkerState_busy(
        send_urgent_message_to_worker(c, setup_plugin_message(plugin, c.id)))

\* send_regular_message_to_worker without the readiness check.
send_regular_message_unready(c, msg) ==
    IF msg.task_uuid \notin c.active_clients
    THEN put_message_to_delayed_queue(c, msg)
    ELSE IF ~c.simple_protocol
            /\ ~WorkerState_is_plugin(c, WorkerPlugin_from_str(msg.plugin))
    THEN setup_worker_plugin(put_message_to_delayed_queue(c, msg),
                             WorkerPlugin_from_str(msg.plugin))
    ELSE IF ~c.simple_protocol
    THEN WorkerState_busy(send_message_to_worker(c, msg))
    ELSE send_message_to_worker(c, msg)

\* send_regular_message_to_worker that does not mark the worker busy.
send_regular_message_stays_ready(c, msg) ==
    IF msg.task_uuid \notin c.active_clients
    THEN put_message_to_delayed_queue(c, msg)
    ELSE IF ~c.simple_protocol /\ c.state # "Ready"
    THEN put_message_to_delayed_queue(c, msg)
    ELSE IF ~c.simple_protocol
            /\ ~WorkerState_is_plugin(c, WorkerPlugin_from_str(msg.plugin))
    THEN setup_worker_plugin(put_message_to_delayed_queue(c, msg),
                             WorkerPlugin_from_str(msg.plugin))
    ELSE send_message_to_worker(c, msg)

send_regular_message_to_worker(c, msg) ==
    IF msg.task_uuid \notin c.active_clients
    THEN put_message_to_delayed_queue(c, msg)
    ELSE IF ~c.simple_protocol /\ c.state # "Ready"
    THEN put_message_to_delayed_queue(c, msg)
    ELSE IF ~c.simple_protocol
            /\ ~WorkerState_is_plugin(c, WorkerPlugin_from_str(msg.plugin))
    THEN setup_worker_plugin(put_message_to_delayed_queue(c, msg),
                             WorkerPlugin_from_str(msg.plugin))
    ELSE IF ~c.simple_protocol
    THEN WorkerState_busy(send_message_to_worker(c, msg))
    ELSE send_message_to_worker(c, msg)

\* send_message_to_client that drops the reply of an unregistered task.
send_message_to_client_or_drop(c, msg) ==
    IF msg.task_uuid \in c.active_clients
    THEN [c EXCEPT !.identity = WorkerIdentity,
                   !.out_client = Append(@, msg)]
    ELSE c

send_message_to_client(c, msg) ==
    IF msg.task_uuid \in c.active_clients
    THEN [c EXCEPT !.identity = WorkerIdentity,
                   !.out_client = Append(@, msg)]
    ELSE [c EXCEPT !.delayed_client_messages = Append(@, msg)]

RECURSIVE SendEachToWorker(_, _)
SendEachToWorker(c, messages) ==
    IF messages = <<>> THEN c
    ELSE SendEachToWorker(send_regular_message_to_worker(c, Head(messages)),
                          Tail(messages))

RECURSIVE SendEachToClient(_, _)
SendEachToClient(c, messages) ==
    IF messages = <<>> THEN c
    ELSE SendEachToClient(send_message_to_client(c, Head(messages)),
                          Tail(messages))

\* send_delayed_messages that re-sends the buffered requests without taking
\* them out of the queue.
send_delayed_messages_keeps_queue(c) ==
    LET c1 == SendEachToWorker(c, c.delayed_worker_messages)
    IN  SendEachToClient([c1 EXCEPT !.delayed_client_messages = <<>>],
                         c1.delayed_client_messages)

\* send_delayed_messages that re-sends the buffered requests newest first.
send_delayed_messages_newest_first(c) ==
    LET q == c.delayed_worker_messages
        c1 == SendEachToWorker([c EXCEPT !.delayed_worker_messages = <<>>],
                               [k \in 1..Len(q) |-> q[Len(q) + 1 - k]])
    IN  SendEachToClient([c1 EXCEPT !.delayed_client_messages = <<>>],
                         c1.delayed_client_messages)

send_delayed_messages(c) ==
    LET c1 == SendEachToWorker([c EXCEPT !.delayed_worker_messages = <<>>],
                               c.delayed_worker_messages)
    IN  SendEachToClient([c1 EXCEPT !.delayed_client_messages = <<>>],
                         c1.delayed_client_messages)

handle_worker_alive_status(c) == [c EXCEPT !.alive_pending = TRUE]

handle_ready_message(c) == send_delayed_messages(WorkerState_ready(c))

handle_started_message(c) ==
    LET c1 == [c EXCEPT !.identity = WorkerIdentity]
    IN  handle_ready_message(
            IF ~c.external_worker THEN handle_worker_alive_status(c1) ELSE c1)

handle_plugin_ready_message(c, name) ==
    IF name # NoName
    THEN send_delayed_messages(
             WorkerState_ready(
                 WorkerState_plugin(c, WorkerPlugin_from_str(name))))
    ELSE c

handle_heartbeat_response(c) ==
    IF c.external_worker
    THEN LET c1 == [c EXCEPT !.identity = WorkerIdentity]
         IN  IF c.state = "Initial"
             THEN WorkerState_busy(
                      send_urgent_message_to_worker(
                          c1, ControllerMessage(c.id, "stop_all")))
             ELSE c1
    ELSE handle_worker_alive_status(c)

handle_controller_message(c, subject, name) ==
    CASE subject = "Started" -> handle_started_message(c)
      [] subject = "Ready" -> handle_ready_message(c)
      [] subject = "PluginReady" -> handle_plugin_ready_message(c, name)
      [] subject = "HeartbeatResponse" -> handle_heartbeat_response(c)
      [] OTHER -> c

\* create_worker_process: the spawn succeeds or fails.
create_worker_process(c, spawned) ==
    IF spawned
    THEN [WorkerState_set(c, "Starting") EXCEPT
             !.worker_process = TRUE, !.out_spawned = @ + 1]
    ELSE [WorkerState_set(c, "Error") EXCEPT !.worker_process = FALSE]

\* A recovery that leaves the old child running.
recover_worker_process_no_kill(c, spawned) == create_worker_process(c, spawned)

recover_worker_process(c, spawned) ==
    create_worker_process(
        IF c.worker_process THEN [c EXCEPT !.out_killed = @ + 1] ELSE c,
        spawned)

\* Actor::started
WorkerController_started(c, spawned) ==
    LET c1 == [c EXCEPT !.actor_started = TRUE]
    IN  IF c.external_worker THEN c1 ELSE create_worker_process(c1, spawned)

\* Handler<WorkerMessage> that takes the request of a task it is not reserved
\* for like any other.
HandleWorkerMessage_unreserved_too(c, msg) ==
    CASE msg.dest = "Client" -> send_message_to_client(c, msg)
      [] msg.dest = "Worker" -> send_regular_message_to_worker(c, msg)
      [] OTHER -> c

\* Handler<WorkerMessage>
HandleWorkerMessage(c, msg) ==
    CASE msg.dest = "Client" -> send_message_to_client(c, msg)
      [] msg.dest = "Worker" ->
            IF ~is_reserved_for_task(c, msg.task_uuid)
            THEN c
            ELSE send_regular_message_to_worker(c, msg)
      [] OTHER -> c

\* Handler<RegisterClient>
HandleRegisterClient(c, task_uuid) ==
    send_delayed_messages([c EXCEPT !.active_clients = @ \cup {task_uuid}])

\* Handler<ReserveForTask> that admits no task while the worker is starting.
HandleReserveForTask_not_starting(c, task_uuid) ==
    IF c.state # "Ready"
       /\ ~(c.external_worker /\ c.state = "Initial")
    THEN [c EXCEPT !.out_result = FALSE]
    ELSE [reserve_for_task(c, task_uuid) EXCEPT !.out_result = TRUE]

\* Handler<ReserveForTask>
HandleReserveForTask(c, task_uuid) ==
    IF c.state # "Ready" /\ c.state # "Starting"
       /\ ~(c.external_worker /\ c.state = "Initial")
    THEN [c EXCEPT !.out_result = FALSE]
    ELSE [reserve_for_task(c, task_uuid) EXCEPT !.out_result = TRUE]

\* handle_stop_task that sends the control request like a client's request.
handle_stop_task_regular(c, task_uuid) ==
    send_regular_message_to_worker(c, StopTaskRequest(c.id, task_uuid))

handle_stop_task(c, task_uuid) ==
    send_urgent_message_to_worker(c, StopTaskRequest(c.id, task_uuid))

handle_close_task(c, task_uuid) ==
    [c EXCEPT !.active_clients = @ \ {task_uuid}]

\* Handler<HeartbeatIntervalMessage>
HandleHeartbeatInterval(c) ==
    [send_message_to_worker(c, ControllerMessage(c.id, "heartbeat_request"))
        EXCEPT !.heartbeat_interval_timer = TRUE]

\* Handler<HeartbeatTimeoutMessage> that forgets the plugin of the worker it
\* kills.
HandleHeartbeatTimeout_forgets_plugin(c, spawned) ==
    recover_worker_process(
        WorkerState_plugin(
            WorkerState_set([c EXCEPT !.heartbeat_timeout_timer = FALSE],
                            "Error"),
            "None"),
        spawned)

\* Handler<HeartbeatTimeoutMessage>
HandleHeartbeatTimeout(c, spawned) ==
    recover_worker_process(
        WorkerState_set([c EXCEPT !.heartbeat_timeout_timer = FALSE], "Error"),
        spawned)

\* Handler<HeartbeatResponseReceivedMessage>
HandleHeartbeatResponseReceived(c) ==
    [c EXCEPT !.alive_pending = FALSE,
              !.heartbeat_interval_timer = TRUE,
              !.heartbeat_timeout_timer = TRUE]

(***************************************************************************)
(* The steps of a controller: it handles one message of its mailbox.       *)
(***************************************************************************)
Running(i) == i \in DOMAIN controllers /\ controllers[i].actor_started

ControllerStep(i, c) ==
    /\ controllers' = [controllers EXCEPT ![i] = c]
    /\ UNCHANGED <<env, pool, tree, tracker, assistant, rest>>

ControllerStarted(i, spawned) ==
    /\ i \in DOMAIN controllers
    /\ ~controllers[i].actor_started
    /\ ControllerStep(i, WorkerController_started(Begin(controllers[i]), spawned))

\* A WorkerMessage: a client's request (dest Worker) or a worker's reply
\* (dest Client).
WorkerMessage(i, msg) ==
    /\ Running(i)
    /\ ControllerStep(i, HandleWorkerMessage(Begin(controllers[i]), msg))

\* A WorkerMessage with dest Controller: a signal of the worker.
WorkerSignal(i, subject, name) ==
    /\ Running(i)
    /\ ControllerStep(i,
           handle_controller_message(Begin(controllers[i]), subject, name))

RegisterClient(i, task_uuid) ==
    /\ Running(i)
    /\ ControllerStep(i, HandleRegisterClient(Begin(controllers[i]), task_uuid))

ReserveForTask(i, task_uuid) ==
    /\ Running(i)
    /\ ControllerStep(i, HandleReserveForTask(Begin(controllers[i]), task_uuid))

StopTask(i, task_uuid) ==
    /\ Running(i)
    /\ ControllerStep(i, handle_stop_task(Begin(controllers[i]), task_uuid))

CloseTask(i, task_uuid) ==
    /\ Running(i)
    /\ ControllerStep(i, handle_close_task(Begin(controllers[i]), task_uuid))

HeartbeatInterval(i) ==
    /\ Running(i)
    /\ controllers[i].heartbeat_interval_timer
    /\ ControllerStep(i, HandleHeartbeatInterval(Begin(controllers[i])))

HeartbeatTimeout(i, spawned) ==
    /\ Running(i)
    /\ controllers[i].heartbeat_timeout_timer
    /\ ControllerStep(i, HandleHeartbeatTimeout(Begin(controllers[i]), spawned))

HeartbeatResponseReceived(i) ==
    /\ Running(i)
    /\ controllers[i].alive_pending
    /\ ControllerStep(i, HandleHeartbeatResponseReceived(Begin(controllers[i])))

\* The names a worker puts into details.name of plugin_ready, or leaves out.
SignalNames(subject) ==
    IF subject = "PluginReady" THEN PluginNames \cup {NoName} ELSE {NoName}

NoPool ==
    [controllers |-> <<>>, controller_ids |-> <<>>, capacity |-> 0,
     next_to_use |-> 0]

NoTree == [tasks |-> <<>>]

NoTracker == [items |-> <<>>]

NoAssistant == [tasks |-> {}]

\* The messages of a sequence that satisfy Test, in order.
TaskMessagesOf(messages) == SelectSeq(messages, LAMBDA m : m.data = "task")

SetupMessagesOf(messages) ==
    SelectSeq(messages, LAMBDA m : m.data = "setup_plugin")

OfTask(messages, task_uuid) ==
    SelectSeq(messages, LAMBDA m : m.task_uuid = task_uuid)

Range(seq) == {seq[k] : k \in DOMAIN seq}


(***************************************************************************)
(* The actors of the later sections, as constructed.                       *)
(***************************************************************************)
NoReprocessor == [tasks |-> <<>>, tasks_linked_with_worker |-> <<>>, out |-> <<>>]

NoTransport == [pipes |-> <<>>]

NoTimeoutActor == [spawned |-> {}]

NoLink == [recipients |-> {}]

NoErrorHandler == [failure |-> FALSE]

NoAppState == [status |-> "Idle"]

\* mailbox: the tasks sent to the processor; task, waiting: the task whose
\* process_task awaits the pool's next(); out: the tasks the latest step
\* handed to the task tree (NewTask).
NoProcessor ==
    [mailbox |-> <<>>, task |-> [uuid |-> 0, worker_id |-> ""],
     waiting |-> FALSE, out |-> <<>>]

NoReprocessorMailbox == <<>>

\* The actors of the later sections are as constructed, but the one named.
RestIdleBut(actor) ==
    /\ IF actor = "reprocessor" THEN TRUE ELSE reprocessor = NoReprocessor
    /\ IF actor = "transport" THEN TRUE ELSE transport = NoTransport
    /\ IF actor = "timeout_actor" THEN TRUE ELSE timeout_actor = NoTimeoutActor
    /\ IF actor = "link" THEN TRUE ELSE link = NoLink
    /\ IF actor = "error_handler" THEN TRUE ELSE error_handler = NoErrorHandler
    /\ IF actor = "app_state" THEN TRUE ELSE app_state = NoAppState
    /\ IF actor = "processor" THEN TRUE ELSE processor = NoProcessor
    /\ IF actor = "reprocessor_mailbox" THEN TRUE
       ELSE reprocessor_mailbox = NoReprocessorMailbox

RestIdle == RestIdleBut("none")

\* A step of the actor named leaves the other actors of the later sections
\* and the actors of the earlier sections as they are.
OnlyChanges(actor) ==
    /\ UNCHANGED <<env, controllers, pool, tree, tracker, assistant>>
    /\ IF actor = "reprocessor" THEN TRUE ELSE UNCHANGED reprocessor
    /\ IF actor = "transport" THEN TRUE ELSE UNCHANGED transport
    /\ IF actor = "timeout_actor" THEN TRUE ELSE UNCHANGED timeout_actor
    /\ IF actor = "link" THEN TRUE ELSE UNCHANGED link
    /\ IF actor = "error_handler" THEN TRUE ELSE UNCHANGED error_handler
    /\ IF actor = "app_state" THEN TRUE ELSE UNCHANGED app_state
    /\ IF actor = "processor" THEN TRUE ELSE UNCHANGED processor
    /\ IF actor = "reprocessor_mailbox" THEN TRUE
       ELSE UNCHANGED reprocessor_mailbox
(***************************************************************************)
(* Spec: one controller in the regular (non-simple) protocol with its      *)
(* clients, its worker and its heartbeat.  The observer records            *)
(*   requests   the number of requests received                            *)
(*   accepted   the requests of reserved tasks, in arrival order           *)
(*   sent       the requests handed to the dispatcher, in order            *)
(***************************************************************************)
GateObserve(op, task, msg) ==
    hist' = [requests |-> IF op = "request" THEN hist.requests + 1
                          ELSE hist.requests,
             accepted |-> IF op = "request"
                             /\ task \in controllers[1].reserved_tasks
                          THEN Append(hist.accepted, msg) ELSE hist.accepted,
             sent |-> hist.sent \o TaskMessagesOf(controllers'[1].out_worker)]

Init ==
    /\ env \in [external_worker : BOOLEAN, simple_protocol : {FALSE}]
    /\ controllers = <<WorkerController_new("0")>>
    /\ pool = NoPool
    /\ tree = NoTree
    /\ tracker = NoTracker
    /\ assistant = NoAssistant
    /\ RestIdle
    /\ hist = [requests |-> 0, accepted |-> <<>>, sent |-> <<>>]

Next ==
    \/ \E spawned \in BOOLEAN :
          /\ ControllerStarted(1, spawned)
          /\ GateObserve("started", NoTask, <<>>)
    \/ \E t \in Tasks, p \in PluginNames :
          LET msg == TaskMessage("0", t, p, hist.requests + 1)
          IN  /\ hist.requests < MaxRequests
              /\ WorkerMessage(1, msg)
              /\ GateObserve("request", t, msg)
    \/ \E subject \in Subjects : \E name \in SignalNames(subject) :
          /\ WorkerSignal(1, subject, name)
          /\ GateObserve(subject, NoTask, <<>>)
    \/ \E t \in Tasks :
          /\ RegisterClient(1, t)
          /\ GateObserve("RegisterClient", t, <<>>)
    \/ \E t \in Tasks :
          /\ ReserveForTask(1, t)
          /\ GateObserve("ReserveForTask", t, <<>>)
    \/ \E t \in Tasks :
          /\ CloseTask(1, t)
          /\ GateObserve("CloseTask", t, <<>>)
    \/ \E spawned \in BOOLEAN :
          /\ HeartbeatTimeout(1, spawned)
          /\ GateObserve("HeartbeatTimeout", NoTask, <<>>)
    \/ /\ HeartbeatResponseReceived(1)
       /\ GateObserve("HeartbeatResponseReceived", NoTask, <<>>)

Spec == Init /\ [][Next]_vars

\* Every element of a sequence of distinct messages is in exactly one of the
\* two others.
SplitInto(all, one, other) ==
    /\ Range(all) = Range(one) \cup Range(other)
    /\ Len(all) = Len(one) + Len(other)

\* C4: in the regular protocol a request is handed to the dispatcher only in a
\* step in which the controller is Ready (it was Ready before the step, or the
\* step's handler set it Ready) and the active plugin is the plugin the request
\* names, one request per step; a request of a reserved task that was not
\* handed over is in delayed_worker_messages, exactly once.
C4_RequestGate ==
    /\ [](SplitInto(hist.accepted, hist.sent,
                    controllers[1].delayed_worker_messages))
    /\ [][LET sent == TaskMessagesOf(controllers'[1].out_worker)
          IN  sent # <<>> =>
                /\ Len(sent) = 1
                /\ \/ controllers[1].state = "Ready"
                   \/ controllers'[1].out_reprocessor # <<>>
                /\ controllers'[1].plugin = WorkerPlugin_from_str(sent[1].plugin)
                /\ controllers'[1].state = "Busy"]_vars

\* A readiness signal has flushed one buffered request and kept another.
C4_Witness ==
    /\ TaskMessagesOf(controllers[1].out_worker) # <<>>
    /\ controllers[1].out_reprocessor # <<>>
    /\ controllers[1].delayed_worker_messages # <<>>
    /\ Len(hist.accepted) = 2


(***************************************************************************)
(* SpecPluginGate: the plugin switch.  The controller is Ready with some   *)
(* active plugin, every task is reserved and has its client registered;    *)
(* the clients send requests and the worker sends any signals.  The        *)
(* observer records                                                        *)
(*   op, name      the message handled by the latest step                  *)
(*   requests, accepted, sent   as in Spec                                 *)
(*   q0            the plugin active at the start                          *)
(*   plugin_ready  the plugins for which PluginReady{name} was handled     *)
(*   setups        plugin-setup messages sent since the latest             *)
(*                 PluginReady{name}                                       *)
(*   readies       Ready and Started signals handled since the first of    *)
(*                 those setup messages                                    *)
(***************************************************************************)
Plugins == {"None", "Basic", "HeadlessBrowser"}

ScenarioRequests == 2

IsReadiness(op, name) ==
    \/ op \in {"Ready", "Started"}
    \/ op = "PluginReady" /\ name # NoName

PluginGateObserve(op, name, msg) ==
    LET out == controllers'[1].out_worker
        named == op = "PluginReady" /\ name # NoName
    IN  hist' =
          [op |-> op, name |-> name,
           requests |-> IF op = "request" THEN hist.requests + 1
                        ELSE hist.requests,
           accepted |-> IF op = "request" THEN Append(hist.accepted, msg)
                        ELSE hist.accepted,
           sent |-> hist.sent \o TaskMessagesOf(out),
           q0 |-> hist.q0,
           plugin_ready |-> IF named
                            THEN hist.plugin_ready
                                    \cup {WorkerPlugin_from_str(name)}
                            ELSE hist.plugin_ready,
           setups |-> Min(CounterCap,
                          (IF named THEN 0 ELSE hist.setups)
                             + Len(SetupMessagesOf(out))),
           readies |-> IF named THEN 0
                       ELSE IF op \in {"Ready", "Started"} /\ hist.setups > 0
                       THEN Bump(hist.readies) ELSE hist.readies]

\* A started controller whose worker is ready with plugin q, reserved for
\* every task and with every client registered.
ReadyController(q) ==
    [WorkerController_new("0") EXCEPT
        !.actor_started = TRUE,
        !.identity = WorkerIdentity,
        !.state = "Ready",
        !.plugin = q,
        !.reserved_tasks = Tasks,
        !.active_clients = Tasks,
        !.heartbeat_interval_timer = ~env.external_worker,
        !.heartbeat_timeout_timer = ~env.external_worker,
        !.worker_process = ~env.external_worker]

InitPluginGate ==
    /\ env \in [external_worker : BOOLEAN, simple_protocol : {FALSE}]
    /\ \E q \in Plugins :
          /\ controllers = <<ReadyController(q)>>
          /\ hist = [op |-> "new", name |-> NoName,
                     requests |-> 0, accepted |-> <<>>, sent |-> <<>>,
                     q0 |-> q, plugin_ready |-> {},
                     setups |-> 0, readies |-> 0]
    /\ pool = NoPool
    /\ tree = NoTree
    /\ tracker = NoTracker
    /\ assistant = NoAssistant
    /\ RestIdle

NextPluginGate ==
    \/ \E t \in Tasks, p \in PluginNames :
          LET msg == TaskMessage("0", t, p, hist.requests + 1)
          IN  /\ hist.requests < ScenarioRequests
              /\ WorkerMessage(1, msg)
              /\ PluginGateObserve("request", NoName, msg)
    \/ \E subject \in Subjects : \E name \in SignalNames(subject) :
          /\ WorkerSignal(1, subject, name)
          /\ PluginGateObserve(subject, name, <<>>)

SpecPluginGate == InitPluginGate /\ [][NextPluginGate]_vars

IsPrefix(s, t) == Len(s) <= Len(t) /\ \A k \in DOMAIN s : s[k] = t[k]

\* Every request received so far names the plugin wire.
AllDemand(wire) == \A k \in DOMAIN hist.accepted : hist.accepted[k].plugin = wire

\* C1 as claimed: once the requests received, all demanding one plugin P other
\* than the plugin Q active at the start, have made the controller send its
\* plugin-setup message, a Ready or HeartbeatResponse signal handled before
\* PluginReady does not make it send another one.
C1_SingleSetupMessage ==
    [][\A wire \in PluginNames :
          (/\ hist.accepted # <<>>
           /\ AllDemand(wire)
           /\ WorkerPlugin_from_str(wire) # hist.q0
           /\ hist.plugin_ready = {}
           /\ hist.setups = 1
           /\ hist'.op \in {"Ready", "HeartbeatResponse"})
          => hist'.setups = 1]_vars

\* C1 as amended: between two PluginReady{name} a plugin-setup message is sent
\* once, and once more for every Ready or Started signal handled after it;
\* a request is transmitted only when PluginReady for its plugin has been
\* handled (or it names the plugin active at the start); the requests are
\* transmitted in their arrival order; and the controller is never left Ready
\* with a request buffered, so every readiness signal transmits the oldest
\* buffered request or sets up its plugin.
C1_PluginGate ==
    /\ hist.setups <= 1 + hist.readies
    /\ \A k \in DOMAIN hist.sent :
          WorkerPlugin_from_str(hist.sent[k].plugin)
             \in hist.plugin_ready \cup {hist.q0}
    /\ IsPrefix(hist.sent, hist.accepted)
    /\ controllers[1].state = "Ready" =>
          controllers[1].delayed_worker_messages = <<>>

\* Two requests for a plugin other than the first one are buffered, and a
\* Ready signal made the controller send the plugin-setup message again.
C1_Witness ==
    /\ Len(hist.accepted) = 2
    /\ \E wire \in PluginNames :
          AllDemand(wire) /\ WorkerPlugin_from_str(wire) # hist.q0
    /\ hist.op = "Ready"
    /\ hist.setups = 2 /\ hist.readies = 1
    /\ hist.sent = <<>>
    /\ controllers[1].delayed_worker_messages = hist.accepted

\* The step handles PluginReady{basic} with two requests for basic, of two
\* tasks, buffered while the active plugin is None.
TwoBasicBuffered ==
    LET c == controllers[1]
        d == c.delayed_worker_messages
    IN  /\ hist'.op = "PluginReady" /\ hist'.name = "basic"
        /\ c.plugin = "None"
        /\ Len(d) = 2
        /\ d[1].plugin = "basic" /\ d[2].plugin = "basic"
        /\ d[1].task_uuid # d[2].task_uuid

\* C2 as claimed: handling PluginReady{basic} transmits both buffered requests.
C2_FlushesBoth ==
    [][TwoBasicBuffered =>
          TaskMessagesOf(controllers'[1].out_worker)
             = controllers[1].delayed_worker_messages]_vars

\* C2 as amended: handling PluginReady{basic} transmits the first of the two
\* buffered requests only and leaves the controller Busy with the second still
\* buffered; in general a readiness signal (Ready, Started, PluginReady{name})
\* transmits the oldest buffered request when it names the then active plugin,
\* and nothing otherwise, and keeps the rest buffered in order.
C2_FlushesOnePerSignal ==
    [][LET c == controllers[1]
           d == c.delayed_worker_messages
           out == TaskMessagesOf(controllers'[1].out_worker)
       IN  /\ TwoBasicBuffered =>
                /\ out = <<d[1]>>
                /\ controllers'[1].delayed_worker_messages = <<d[2]>>
                /\ controllers'[1].state = "Busy"
           /\ (IsReadiness(hist'.op, hist'.name) /\ d # <<>>) =>
                IF WorkerPlugin_from_str(d[1].plugin) = controllers'[1].plugin
                THEN /\ out = <<d[1]>>
                     /\ controllers'[1].delayed_worker_messages = Tail(d)
                ELSE /\ out = <<>>
                     /\ controllers'[1].delayed_worker_messages = d]_vars

\* PluginReady{basic} was handled with two requests of two tasks buffered, and
\* the second is still buffered.
C2_Witness ==
    /\ hist.op = "PluginReady" /\ hist.name = "basic"
    /\ hist.q0 = "None"
    /\ hist.plugin_ready = {"Basic"}
    /\ Len(hist.accepted) = 2 /\ AllDemand("basic")
    /\ hist.accepted[1].task_uuid # hist.accepted[2].task_uuid
    /\ hist.sent = <<hist.accepted[1]>>
    /\ controllers[1].delayed_worker_messages = <<hist.accepted[2]>>


(***************************************************************************)
(* SpecReply: replies of the worker to the clients.  A new controller      *)
(* receives replies (dest = Client) for any task, registrations and        *)
(* closings of clients, reservations, requests and worker signals.  The    *)
(* observer records the replies in their arrival order (arrived) and the   *)
(* replies handed to a client (delivered).                                 *)
(***************************************************************************)
MaxReplies == 3

ReplyRequests == 1

ReplyObserve(op, msg) ==
    hist' = [replies |-> IF op = "reply" THEN hist.replies + 1
                         ELSE hist.replies,
             requests |-> IF op = "request" THEN hist.requests + 1
                          ELSE hist.requests,
             arrived |-> IF op = "reply" THEN Append(hist.arrived, msg)
                         ELSE hist.arrived,
             delivered |-> hist.delivered \o controllers'[1].out_client]

InitReply ==
    /\ env \in [external_worker : BOOLEAN, simple_protocol : {FALSE}]
    /\ controllers = <<WorkerController_new("0")>>
    /\ pool = NoPool
    /\ tree = NoTree
    /\ tracker = NoTracker
    /\ assistant = NoAssistant
    /\ RestIdle
    /\ hist = [replies |-> 0, requests |-> 0,
               arrived |-> <<>>, delivered |-> <<>>]

NextReply ==
    \/ \E spawned \in BOOLEAN :
          ControllerStarted(1, spawned) /\ ReplyObserve("started", <<>>)
    \/ \E t \in Tasks :
          LET msg == ClientMessage("0", t, hist.replies + 1)
          IN  /\ hist.replies < MaxReplies
              /\ WorkerMessage(1, msg)
              /\ ReplyObserve("reply", msg)
    \/ \E t \in Tasks, p \in PluginNames :
          LET msg == TaskMessage("0", t, p, hist.requests + 1)
          IN  /\ hist.requests < ReplyRequests
              /\ WorkerMessage(1, msg)
              /\ ReplyObserve("request", msg)
    \/ \E subject \in {"Ready", "PluginReady"} :
       \E name \in SignalNames(subject) :
          WorkerSignal(1, subject, name) /\ ReplyObserve(subject, <<>>)
    \/ \E t \in Tasks : RegisterClient(1, t) /\ ReplyObserve("register", <<>>)
    \/ \E t \in Tasks : ReserveForTask(1, t) /\ ReplyObserve("reserve", <<>>)
    \/ \E t \in Tasks : CloseTask(1, t) /\ ReplyObserve("close", <<>>)

SpecReply == InitReply /\ [][NextReply]_vars

\* C3: the replies that arrived for a task are, in their arrival order, the
\* replies delivered for it followed by the ones in the delayed client queue,
\* so none is lost, repeated or overtaken; a reply is in the delayed client
\* queue only while its task has no registered client, so a registration
\* delivers every buffered reply of its task; and a step hands a reply to a
\* client only if the task's client is registered when the step ends.
C3_DelayedClientBuffering ==
    /\ [](/\ \A t \in Tasks :
                OfTask(hist.arrived, t)
                   = OfTask(hist.delivered, t)
                        \o OfTask(controllers[1].delayed_client_messages, t)
          /\ \A k \in DOMAIN controllers[1].delayed_client_messages :
                controllers[1].delayed_client_messages[k].task_uuid
                   \notin controllers[1].active_clients)
    /\ [][\A k \in DOMAIN controllers'[1].out_client :
             controllers'[1].out_client[k].task_uuid
                \in controllers'[1].active_clients]_vars

\* Three replies arrived while no client was registered, the first and the
\* third for one task; its registration delivered these two in order and left
\* the other task's reply buffered.
C3_Witness ==
    /\ Len(hist.arrived) = 3
    /\ hist.arrived[1].task_uuid = hist.arrived[3].task_uuid
    /\ hist.arrived[1].task_uuid # hist.arrived[2].task_uuid
    /\ controllers[1].out_client = <<hist.arrived[1], hist.arrived[3]>>
    /\ hist.delivered = controllers[1].out_client
    /\ controllers[1].delayed_client_messages = <<hist.arrived[2]>>

(***************************************************************************)
(* SpecReserve: reservations.  A new controller is started, its worker     *)
(* signals, its heartbeat times out, clients register and send requests,   *)
(* and ReserveForTask queries arrive for any task at any moment.  The      *)
(* observer records the message handled by the latest step (op, task) and  *)
(* per task the number of queries answered true (trues).                   *)
(***************************************************************************)
ReserveRequests == 1

ReserveObserve(op, task) ==
    hist' = [op |-> op, task |-> task,
             requests |-> IF op = "request" THEN hist.requests + 1
                          ELSE hist.requests,
             trues |-> IF op = "reserve" /\ controllers'[1].out_result
                       THEN [hist.trues EXCEPT ![task] = Bump(@)]
                       ELSE hist.trues]

InitReserve ==
    /\ env \in [external_worker : BOOLEAN, simple_protocol : {FALSE}]
    /\ controllers = <<WorkerController_new("0")>>
    /\ pool = NoPool
    /\ tree = NoTree
    /\ tracker = NoTracker
    /\ assistant = NoAssistant
    /\ RestIdle
    /\ hist = [op |-> "new", task |-> NoTask, requests |-> 0,
               trues |-> [t \in Tasks |-> 0]]

NextReserve ==
    \/ \E spawned \in BOOLEAN :
          ControllerStarted(1, spawned) /\ ReserveObserve("started", NoTask)
    \/ \E t \in Tasks : ReserveForTask(1, t) /\ ReserveObserve("reserve", t)
    \/ \E t \in Tasks : RegisterClient(1, t) /\ ReserveObserve("register", t)
    \/ \E t \in Tasks, p \in PluginNames :
          /\ hist.requests < ReserveRequests
          /\ WorkerMessage(1, TaskMessage("0", t, p, hist.requests + 1))
          /\ ReserveObserve("request", t)
    \/ \E subject \in Subjects : \E name \in SignalNames(subject) :
          WorkerSignal(1, subject, name) /\ ReserveObserve(subject, NoTask)
    \/ \E spawned \in BOOLEAN :
          HeartbeatTimeout(1, spawned) /\ ReserveObserve("timeout", NoTask)
    \/ HeartbeatResponseReceived(1) /\ ReserveObserve("alive", NoTask)

SpecReserve == InitReserve /\ [][NextReserve]_vars

\* The controller state admits a reservation.
Admits(c) ==
    \/ c.state \in {"Ready", "Starting"}
    \/ c.external_worker /\ c.state = "Initial"

\* C5 as claimed: a controller answers true at most once per task uuid.
C5_TrueAtMostOnce == \A t \in Tasks : hist.trues[t] <= 1

\* C5 as amended: the reserved tasks are exactly the tasks for which a query
\* was answered true, however often; a query for a task that is reserved
\* already is answered true again whenever the state admits a reservation, and
\* that answer changes nothing in the controller.
C5_ReservedOnce ==
    /\ [](\A t \in Tasks :
             t \in controllers[1].reserved_tasks <=> hist.trues[t] >= 1)
    /\ [][(hist'.op = "reserve"
             /\ hist'.task \in controllers[1].reserved_tasks) =>
            /\ controllers'[1].out_result = Admits(controllers[1])
            /\ controllers'[1]
                  = [Begin(controllers[1]) EXCEPT
                        !.out_result = controllers'[1].out_result]]_vars

\* A second query for the same task was answered true.
C5_Witness ==
    /\ hist.op = "reserve"
    /\ controllers[1].out_result
    /\ hist.trues[hist.task] = 2
    /\ controllers[1].reserved_tasks = {hist.task}

\* C6: a ReserveForTask query is answered true exactly when the state is Ready
\* or Starting, or Initial with an external worker; a true answer adds the task
\* to reserved_tasks and a false one leaves reserved_tasks as it was; the query
\* changes nothing else, and the states Preparing and Exiting never occur.
C6_ReservationAdmission ==
    /\ [](controllers[1].state
             \in {"Initial", "Starting", "Ready", "Busy", "Error"})
    /\ [][hist'.op = "reserve" =>
            LET c == controllers[1]
                answer == controllers'[1].out_result
            IN  /\ answer = Admits(c)
                /\ answer => /\ hist'.task \in controllers'[1].reserved_tasks
                             /\ controllers'[1].reserved_tasks
                                   = c.reserved_tasks \cup {hist'.task}
                /\ ~answer => controllers'[1].reserved_tasks = c.reserved_tasks
                /\ controllers'[1].state = c.state]_vars

\* A query was refused by a Busy controller that had admitted another task
\* earlier.
C6_Witness ==
    /\ hist.op = "reserve"
    /\ ~controllers[1].out_result
    /\ controllers[1].state = "Busy"
    /\ ~controllers[1].external_worker
    /\ controllers[1].reserved_tasks # {}
    /\ hist.task \notin controllers[1].reserved_tasks

(***************************************************************************)
(* worker/controller_pool.rs                                               *)
(*                                                                         *)
(* An Addr<WorkerController> is the controller's index in controllers.     *)
(* next() awaits the answer of every probe, so one call takes several      *)
(* steps; the processor holds the pool's mutex for the whole call, so the  *)
(* calls do not overlap.  The locals of the running call (active,          *)
(* task_uuid, created, orig_next_to_use) and the value it returned         *)
(* (result) are kept in the pool record.                                   *)
(***************************************************************************)
Digit == <<"0", "1", "2", "3", "4", "5", "6", "7", "8", "9">>

\* usize::to_string
RECURSIVE to_string(_)
to_string(n) ==
    IF n < 10 THEN Digit[n + 1]
    ELSE to_string(n \div 10) \o Digit[(n % 10) + 1]

\* Vec indexing, from 0
At(vec, index) == vec[index + 1]

NoResult == [some |-> FALSE, addr |-> 0, id |-> "", created |-> FALSE]

ControllerPool_new(capacity) ==
    [controllers |-> <<>>,
     controller_ids |-> <<>>,
     capacity |-> capacity,
     next_to_use |-> 0,
     active |-> FALSE,
     task_uuid |-> NoTask,
     created |-> FALSE,
     orig_next_to_use |-> 0,
     result |-> NoResult]

\* next(), up to the loop: a controller is created while the pool is not full.
ControllerPool_next_begin(p, task_uuid, controller_address) ==
    LET create == Len(p.controllers) < p.capacity
        p1 == IF create
              THEN [p EXCEPT
                      !.controller_ids = Append(@, to_string(p.next_to_use)),
                      !.controllers = Append(@, controller_address)]
              ELSE p
    IN  [p1 EXCEPT !.active = TRUE,
                   !.task_uuid = task_uuid,
                   !.created = create,
                   !.orig_next_to_use = p.next_to_use,
                   !.result = NoResult]

\* try_to_reserve_for_task: the controller's answer, false when the send failed.
try_to_reserve_for_task(delivered, answer) ==
    IF delivered THEN answer ELSE FALSE

\* next() that moves the cursor only past a controller that refused.
ControllerPool_next_probed_stay(p, reserve_result) ==
    LET addr == At(p.controllers, p.next_to_use)
        advanced == IF p.next_to_use + 1 >= Len(p.controllers) THEN 0
                    ELSE p.next_to_use + 1
    IN  IF reserve_result
        THEN [p EXCEPT !.active = FALSE,
                       !.result = [some |-> TRUE, addr |-> addr,
                                   id |-> At(p.controller_ids, p.next_to_use),
                                   created |-> p.created]]
        ELSE IF advanced = p.orig_next_to_use
        THEN [p EXCEPT !.next_to_use = advanced, !.active = FALSE,
                       !.result = NoResult]
        ELSE [p EXCEPT !.next_to_use = advanced]

\* next() that ends the cycle when the cursor wraps around.
ControllerPool_next_probed_wrap(p, reserve_result) ==
    LET addr == At(p.controllers, p.next_to_use)
        advanced == IF p.next_to_use + 1 >= Len(p.controllers) THEN 0
                    ELSE p.next_to_use + 1
        p1 == [p EXCEPT !.next_to_use = advanced]
    IN  IF reserve_result
        THEN [p1 EXCEPT !.active = FALSE,
                        !.result = [some |-> TRUE, addr |-> addr,
                                    id |-> At(p.controller_ids, advanced),
                                    created |-> p.created]]
        ELSE IF advanced = 0
        THEN [p1 EXCEPT !.active = FALSE, !.result = NoResult]
        ELSE p1

\* next() that returns the id of the controller that accepted.
ControllerPool_next_probed_own_id(p, reserve_result) ==
    LET addr == At(p.controllers, p.next_to_use)
        advanced == IF p.next_to_use + 1 >= Len(p.controllers) THEN 0
                    ELSE p.next_to_use + 1
        p1 == [p EXCEPT !.next_to_use = advanced]
    IN  IF reserve_result
        THEN [p1 EXCEPT !.active = FALSE,
                        !.result = [some |-> TRUE, addr |-> addr,
                                    id |-> At(p.controller_ids, p.next_to_use),
                                    created |-> p.created]]
        ELSE IF advanced = p.orig_next_to_use
        THEN [p1 EXCEPT !.active = FALSE, !.result = NoResult]
        ELSE p1

\* next(), one turn of the loop after the probe was answered.
ControllerPool_next_probed(p, reserve_result) ==
    LET addr == At(p.controllers, p.next_to_use)
        advanced == IF p.next_to_use + 1 >= Len(p.controllers) THEN 0
                    ELSE p.next_to_use + 1
        p1 == [p EXCEPT !.next_to_use = advanced]
    IN  IF reserve_result
        THEN [p1 EXCEPT !.active = FALSE,
                        !.result = [some |-> TRUE, addr |-> addr,
                                    id |-> At(p.controller_ids, advanced),
                                    created |-> p.created]]
        ELSE IF advanced = p.orig_next_to_use
        THEN [p1 EXCEPT !.active = FALSE, !.result = NoResult]
        ELSE p1

\* The processor calls next() for a task; the new controller is not started
\* yet.
PoolNext(task_uuid) ==
    /\ ~pool.active
    /\ pool' = ControllerPool_next_begin(pool, task_uuid, Len(controllers) + 1)
    /\ controllers' =
          IF pool'.created
          THEN Append(controllers,
                      WorkerController_new(At(pool'.controller_ids,
                                              Len(controllers))))
          ELSE controllers
    /\ UNCHANGED <<env, tree, tracker, assistant, rest>>

\* One probe: the controller under the cursor handles ReserveForTask (unless
\* the send fails) and next() goes on with its answer.
PoolProbe(delivered) ==
    /\ pool.active
    /\ LET addr == At(pool.controllers, pool.next_to_use)
           c == HandleReserveForTask(Begin(controllers[addr]), pool.task_uuid)
       IN  /\ delivered => Running(addr)
           /\ controllers' = IF delivered
                             THEN [controllers EXCEPT ![addr] = c]
                             ELSE controllers
           /\ pool' = ControllerPool_next_probed(
                          pool, try_to_reserve_for_task(delivered, c.out_result))
    /\ UNCHANGED <<env, tree, tracker, assistant, rest>>

(***************************************************************************)
(* SpecPool: a pool of any capacity from 1 (the processor's pool has       *)
(* capacity 1).  The processor calls next(); the controllers are started   *)
(* (the worker is spawned or not), and their workers send Ready and        *)
(* HeartbeatResponse.  The observer records the number of calls, the       *)
(* probes of the latest call (probed: controller and answer), the cursor   *)
(* and the number of controllers when its loop began, and, of the latest   *)
(* two finished calls, the controller reserved (0 for none), the number of *)
(* controllers and the number of probes.                                   *)
(***************************************************************************)
MaxCapacity == 3

MaxCalls == 3

NoCall == [addr |-> 0, len |-> 0, tries |-> 0]

PoolObserve(op, addr, answer) ==
    LET probed == IF op = "next" THEN <<>>
                  ELSE IF op = "probe"
                  THEN Append(hist.probed, [addr |-> addr, answer |-> answer])
                  ELSE hist.probed
        finished == op = "probe" /\ ~pool'.active
    IN  hist' = [calls |-> IF op = "next" THEN hist.calls + 1 ELSE hist.calls,
                 probed |-> probed,
                 last |-> IF finished
                          THEN [addr |-> pool'.result.addr,
                                len |-> Len(pool'.controllers),
                                tries |-> Len(probed)]
                          ELSE hist.last,
                 before |-> IF finished THEN hist.last ELSE hist.before]

InitPool ==
    /\ env \in [external_worker : BOOLEAN, simple_protocol : {FALSE}]
    /\ controllers = <<>>
    /\ \E capacity \in 1..MaxCapacity : pool = ControllerPool_new(capacity)
    /\ tree = NoTree
    /\ tracker = NoTracker
    /\ assistant = NoAssistant
    /\ RestIdle
    /\ hist = [calls |-> 0, probed |-> <<>>, last |-> NoCall, before |-> NoCall]

NextPool ==
    \/ \E t \in Tasks :
          /\ hist.calls < MaxCalls
          /\ PoolNext(t)
          /\ PoolObserve("next", 0, FALSE)
    \/ \E delivered \in BOOLEAN :
          /\ PoolProbe(delivered)
          /\ PoolObserve("probe", At(pool.controllers, pool.next_to_use),
                         pool'.result.some)
    \/ \E i \in DOMAIN controllers, spawned \in BOOLEAN :
          ControllerStarted(i, spawned) /\ PoolObserve("started", 0, FALSE)
    \/ \E i \in DOMAIN controllers, subject \in {"Ready", "HeartbeatResponse"} :
          WorkerSignal(i, subject, NoName) /\ PoolObserve(subject, 0, FALSE)

SpecPool == InitPool /\ [][NextPool]_vars

\* C7: when a next() call is answered true by its first probe, in a pool of
\* two (or more) controllers none of which it created, the controller it
\* reserves is not the one the call before it reserved: with two controllers
\* that accept every probe, successive calls alternate.
C7_RoundRobin ==
    (/\ ~pool.active
     /\ hist.before.addr # 0
     /\ hist.last.addr # 0
     /\ hist.last.tries = 1
     /\ hist.last.len >= 2
     /\ hist.before.len = hist.last.len)
    => hist.last.addr # hist.before.addr

\* Two calls in a row were answered true by their first probe in a pool of two
\* controllers.
C7_Witness ==
    /\ ~pool.active
    /\ hist.before = [addr |-> 1, len |-> 2, tries |-> 1]
    /\ hist.last = [addr |-> 2, len |-> 2, tries |-> 1]

\* The controllers a call starting at cursor orig probes, in order.
Cycle(p, orig, k) == At(p.controllers, (orig + k - 1) % Len(p.controllers))

\* C8: a next() call probes the controllers in the cursor's cyclic order,
\* each at most once, moving the cursor by one per probe; it goes on only
\* after a refusal; it returns none exactly after every controller of the pool
\* has refused once, with the cursor back where the call started; and it
\* returns the first controller that answers true.
C8_FullCycle ==
    hist.calls > 0 =>
        LET n == Len(pool.controllers)
            tries == Len(hist.probed)
            orig == pool.orig_next_to_use
        IN  /\ tries <= n
            /\ \A k \in 1..tries : hist.probed[k].addr = Cycle(pool, orig, k)
            /\ \A k \in 1..(tries - 1) : ~hist.probed[k].answer
            /\ pool.next_to_use = (orig + tries) % n
            /\ pool.active =>
                  /\ tries < n
                  /\ \A k \in 1..tries : ~hist.probed[k].answer
            /\ (~pool.active /\ ~pool.result.some) =>
                  /\ tries = n
                  /\ ~hist.probed[n].answer
                  /\ pool.next_to_use = orig
            /\ (~pool.active /\ pool.result.some) =>
                  /\ hist.probed[tries].answer
                  /\ pool.result.addr = hist.probed[tries].addr

\* A call that started in the middle of a pool of three returned none after
\* every controller refused.
C8_Witness ==
    /\ ~pool.active
    /\ ~pool.result.some
    /\ Len(pool.controllers) = 3
    /\ pool.orig_next_to_use = 1
    /\ Len(hist.probed) = 3
    /\ hist.probed[1].addr = 2 /\ hist.probed[2].addr = 3
    /\ hist.probed[3].addr = 1

\* C9 as claimed: no two controllers of the pool have the same worker id.
C9_DistinctWorkerIds ==
    \A j, k \in DOMAIN pool.controllers :
        j # k =>
            /\ pool.controller_ids[j] # pool.controller_ids[k]
            /\ controllers[pool.controllers[j]].id
                  # controllers[pool.controllers[k]].id

(***************************************************************************)
(* worker/task_tree.rs                                                     *)
(*                                                                         *)
(* tasks is a function from the task uuids in the tree to their items.  An *)
(* item holds ctx.parent_task_uuid (parent, NoTask for ""), whether        *)
(* ctx.controller_addr is a Controller (has_controller), child_tasks and   *)
(* task_status.  What the latest handler sent is counted per task uuid:    *)
(* StopTask to ctx.stop_task_addr and to the controller, CloseTask to the  *)
(* tracker and to the controller, and the tasks handed to the processor    *)
(* for a restart.  A HashSet is walked in no particular order; the walks   *)
(* here only count messages and touch disjoint subtrees, so any order      *)
(* gives the same result.                                                  *)
(*                                                                         *)
(* Uuid::new_v4 is taken to return a uuid never returned before: generated *)
(* counts the uuids made so far and the next one is generated + 1.         *)
(* to_processor holds the restarted tasks on their way through the         *)
(* processor back into the tree: the new uuid, the uuid it replaces and    *)
(* the task's parent uuid.                                                 *)
(***************************************************************************)
MaxTreeTasks == 3

TreeUuids == 1..MaxTreeTasks

NoneSent == [u \in TreeUuids |-> 0]

TaskTree_default ==
    [tasks |-> <<>>,
     tasks_to_close |-> {},
     tasks_to_restart |-> {},
     panicked |-> FALSE,
     out_stop_addr |-> NoneSent,
     out_stop_controller |-> NoneSent,
     out_close_tracker |-> NoneSent,
     out_close_controller |-> NoneSent,
     out_restart |-> {},
     generated |-> 0,
     to_processor |-> {}]

\* What a handler starts from: nothing sent yet.
BeginTree(tt) ==
    [tt EXCEPT !.out_stop_addr = NoneSent,
               !.out_stop_controller = NoneSent,
               !.out_close_tracker = NoneSent,
               !.out_close_controller = NoneSent,
               !.out_restart = {}]

TaskTreeItem_new(parent_task_uuid, has_controller) ==
    [parent |-> parent_task_uuid,
     has_controller |-> has_controller,
     child_tasks |-> {},
     task_status |-> "Running"]

task_finished(item) ==
    item.task_status \in {"FinishedSuccess", "FinishedFailure"}

Insert(tasks, uuid, item) ==
    [u \in DOMAIN tasks \cup {uuid} |-> IF u = uuid THEN item ELSE tasks[u]]

Remove(tasks, uuid) == [u \in DOMAIN tasks \ {uuid} |-> tasks[u]]

\* process_new_task that does not tell the parent about its child.
process_new_task_unlinked(tt, uuid, parent_task_uuid, has_controller) ==
    LET tasks == Insert(tt.tasks, uuid,
                        TaskTreeItem_new(parent_task_uuid, has_controller))
    IN  IF parent_task_uuid # NoTask /\ parent_task_uuid \notin DOMAIN tasks
        THEN [tt EXCEPT !.tasks = tasks, !.panicked = TRUE]
        ELSE [tt EXCEPT !.tasks = tasks]

\* process_new_task that accepts a task whose parent has no record.
process_new_task_orphan(tt, uuid, parent_task_uuid, has_controller) ==
    LET tasks == Insert(tt.tasks, uuid,
                        TaskTreeItem_new(parent_task_uuid, has_controller))
    IN  IF parent_task_uuid # NoTask /\ parent_task_uuid \in DOMAIN tasks
        THEN [tt EXCEPT !.tasks =
                 [tasks EXCEPT ![parent_task_uuid].child_tasks = @ \cup {uuid}]]
        ELSE [tt EXCEPT !.tasks = tasks]

process_new_task(tt, uuid, parent_task_uuid, has_controller) ==
    LET tasks == Insert(tt.tasks, uuid,
                        TaskTreeItem_new(parent_task_uuid, has_controller))
    IN  IF parent_task_uuid = NoTask
        THEN [tt EXCEPT !.tasks = tasks]
        ELSE IF parent_task_uuid \in DOMAIN tasks
        THEN [tt EXCEPT !.tasks =
                 [tasks EXCEPT ![parent_task_uuid].child_tasks = @ \cup {uuid}]]
        ELSE [tt EXCEPT !.tasks = tasks, !.panicked = TRUE]

RECURSIVE stop_task(_, _)
RECURSIVE StopEach(_, _)
stop_task(tt, task_uuid) ==
    IF task_uuid \in DOMAIN tt.tasks
    THEN LET item == tt.tasks[task_uuid]
             t1 == StopEach(tt, item.child_tasks)
         IN  IF task_finished(item)
             THEN t1
             ELSE [t1 EXCEPT
                     !.out_stop_controller[task_uuid] =
                        IF item.has_controller THEN @ + 1 ELSE @,
                     !.out_stop_addr[task_uuid] = @ + 1]
    ELSE tt

StopEach(tt, uuids) ==
    IF uuids = {} THEN tt
    ELSE LET u == CHOOSE u \in uuids : TRUE
         IN  StopEach(stop_task(tt, u), uuids \ {u})

\* WorkerTask::update_task_uuid: the task as the processor receives it.
update_task_uuid(tt, task_uuid, item) ==
    [uuid |-> tt.generated + 1, old |-> task_uuid, parent |-> item.parent]

\* The hand-over of a restarted task to the processor.
Restart(tt, task_uuid, item) ==
    IF task_uuid \in tt.tasks_to_restart
    THEN [tt EXCEPT
            !.out_restart = @ \cup {task_uuid},
            !.to_processor = @ \cup {update_task_uuid(tt, task_uuid, item)},
            !.generated = @ + 1,
            !.tasks_to_restart = @ \ {task_uuid}]
    ELSE tt

RECURSIVE close_task(_, _)
RECURSIVE CloseEach(_, _)
\* close_task that hands the task over under the uuid it had.
close_task_same_uuid(tt, task_uuid) ==
    IF task_uuid \in DOMAIN tt.tasks
    THEN LET item == tt.tasks[task_uuid]
             remove == task_finished(item)
             t1 == IF remove
                   THEN [tt EXCEPT
                           !.out_close_controller[task_uuid] =
                              IF item.has_controller THEN @ + 1 ELSE @,
                           !.out_close_tracker[task_uuid] = @ + 1]
                   ELSE stop_task(
                            [tt EXCEPT !.tasks_to_close = @ \cup {task_uuid}],
                            task_uuid)
             t2 == CloseEach(t1, item.child_tasks)
             t3 == [t2 EXCEPT !.tasks = Remove(@, task_uuid),
                              !.tasks_to_close = @ \ {task_uuid}]
         IN  IF ~remove THEN t2
             ELSE IF task_uuid \in t3.tasks_to_restart
             THEN [t3 EXCEPT
                     !.out_restart = @ \cup {task_uuid},
                     !.to_processor =
                        @ \cup {[uuid |-> task_uuid, old |-> task_uuid,
                                 parent |-> item.parent]},
                     !.tasks_to_restart = @ \ {task_uuid}]
             ELSE t3
    ELSE tt

close_task(tt, task_uuid) ==
    IF task_uuid \in DOMAIN tt.tasks
    THEN LET item == tt.tasks[task_uuid]
             remove == task_finished(item)
             t1 == IF remove
                   THEN [tt EXCEPT
                           !.out_close_controller[task_uuid] =
                              IF item.has_controller THEN @ + 1 ELSE @,
                           !.out_close_tracker[task_uuid] = @ + 1]
                   ELSE stop_task(
                            [tt EXCEPT !.tasks_to_close = @ \cup {task_uuid}],
                            task_uuid)
             t2 == CloseEach(t1, item.child_tasks)
         IN  IF ~remove THEN t2
             ELSE Restart([t2 EXCEPT !.tasks = Remove(@, task_uuid),
                                     !.tasks_to_close = @ \ {task_uuid}],
                          task_uuid, item)
    ELSE tt

CloseEach(tt, uuids) ==
    IF uuids = {} THEN tt
    ELSE LET u == CHOOSE u \in uuids : TRUE
         IN  CloseEach(close_task(tt, u), uuids \ {u})

restart_task(tt, task_uuid) ==
    IF task_uuid \in DOMAIN tt.tasks
    THEN close_task([tt EXCEPT !.tasks_to_restart = @ \cup {task_uuid}],
                    task_uuid)
    ELSE tt

\* handle_task_update that records the status and closes nothing.
handle_task_update_status_only(tt, task_uuid, status) ==
    IF status \in {"FinishedSuccess", "FinishedFailure"}
       /\ task_uuid \in DOMAIN tt.tasks
    THEN [tt EXCEPT !.tasks[task_uuid].task_status = status]
    ELSE tt

\* handle_task_update that records whatever status the update carries.
handle_task_update_any_status(tt, task_uuid, status) ==
    LET t1 == IF task_uuid \in DOMAIN tt.tasks
              THEN [tt EXCEPT !.tasks[task_uuid].task_status = status]
              ELSE tt
    IN  IF status \in {"FinishedSuccess", "FinishedFailure"}
           /\ task_uuid \in t1.tasks_to_close
        THEN close_task(t1, task_uuid)
        ELSE t1

handle_task_update(tt, task_uuid, status) ==
    IF status \in {"FinishedSuccess", "FinishedFailure"}
    THEN LET t1 == IF task_uuid \in DOMAIN tt.tasks
                   THEN [tt EXCEPT !.tasks[task_uuid].task_status = status]
                   ELSE tt
         IN  IF task_uuid \in t1.tasks_to_close
             THEN close_task(t1, task_uuid)
             ELSE t1
    ELSE tt

TreeStep(tt) ==
    /\ ~tree.panicked
    /\ tt.generated <= MaxTreeTasks
    /\ tree' = tt
    /\ UNCHANGED <<env, controllers, pool, tracker, assistant, rest>>

\* The task with this uuid has arrived: a new task has had its uuid generated,
\* a restarted one is no longer on its way.
Arrived(tt, uuid) ==
    [tt EXCEPT !.generated = IF uuid > @ THEN uuid ELSE @,
               !.to_processor = {r \in @ : r.uuid # uuid}]

\* Handler<NewTask>
NewTask(uuid, parent_task_uuid, has_controller) ==
    TreeStep(Arrived(process_new_task(BeginTree(tree), uuid, parent_task_uuid,
                                      has_controller),
                     uuid))

\* Handler<StopTask> and the control command stop_task
TreeStopTask(task_uuid) == TreeStep(stop_task(BeginTree(tree), task_uuid))

\* the control command close_task
TreeCloseTask(task_uuid) == TreeStep(close_task(BeginTree(tree), task_uuid))

\* Handler<RestartTask> and the control command restart_task
TreeRestartTask(task_uuid) ==
    TreeStep(restart_task(BeginTree(tree), task_uuid))

\* Handler<TaskUpdate>
TreeTaskUpdate(task_uuid, status) ==
    TreeStep(handle_task_update(BeginTree(tree), task_uuid, status))

(***************************************************************************)
(* SpecTree: the task tree receives new tasks with fresh uuids, below any  *)
(* task created so far or at the top, the restarted tasks it handed to the *)
(* processor, status updates, and stop, close and restart commands for any *)
(* uuid.  The observer records the number of tasks that entered the tree   *)
(* and the message handled by the latest step, with the status it carried  *)
(* if it was an update.                                                    *)
(***************************************************************************)
TaskStatuses == {"Running", "FinishedSuccess", "FinishedFailure"}

TreeObserve(op, task, status) ==
    hist' = [created |-> IF op = "new" THEN hist.created + 1 ELSE hist.created,
             op |-> op, task |-> task, status |-> status]

InitTree ==
    /\ env \in [external_worker : {FALSE}, simple_protocol : {FALSE}]
    /\ controllers = <<>>
    /\ pool = NoPool
    /\ tree = TaskTree_default
    /\ tracker = NoTracker
    /\ assistant = NoAssistant
    /\ RestIdle
    /\ hist = [created |-> 0, op |-> "new", task |-> NoTask, status |-> "None"]

NextTree ==
    \/ \E parent \in 0..tree.generated, has_controller \in BOOLEAN :
          /\ NewTask(tree.generated + 1, parent, has_controller)
          /\ TreeObserve("new", tree.generated + 1, "None")
    \/ \E r \in tree.to_processor, has_controller \in BOOLEAN :
          /\ NewTask(r.uuid, r.parent, has_controller)
          /\ TreeObserve("new", r.uuid, "None")
    \/ \E u \in TreeUuids, status \in TaskStatuses :
          TreeTaskUpdate(u, status) /\ TreeObserve("update", u, status)
    \/ \E u \in TreeUuids : TreeStopTask(u) /\ TreeObserve("stop", u, "None")
    \/ \E u \in TreeUuids : TreeCloseTask(u) /\ TreeObserve("close", u, "None")
    \/ \E u \in TreeUuids :
          TreeRestartTask(u) /\ TreeObserve("restart", u, "None")

SpecTree == InitTree /\ [][NextTree]_vars

\* Task x is in the tree below task p, every record between them being in
\* the tree.
RECURSIVE IsBelow(_, _)
IsBelow(x, p) ==
    /\ x \in DOMAIN tree.tasks
    /\ tree.tasks[x].parent \in DOMAIN tree.tasks
    /\ \/ tree.tasks[x].parent = p
       \/ IsBelow(tree.tasks[x].parent, p)

\* C10 as claimed: handling a stop for task P emits a StopTask, to the stop
\* recipient and to the controller if there is one, for every descendant of P
\* in the tree.
C10_StopsEveryDescendant ==
    hist.op = "stop" =>
        \A x \in DOMAIN tree.tasks :
            IsBelow(x, hist.task) =>
                /\ tree.out_stop_addr[x] >= 1
                /\ tree.tasks[x].has_controller =>
                      tree.out_stop_controller[x] >= 1

\* C10 as amended: handling a stop for task P emits exactly one StopTask to
\* the stop recipient, and exactly one to the controller if there is one, for
\* P and for every descendant of P in the tree that is not finished, and none
\* for any other task.
C10_StopsUnfinishedDescendants ==
    hist.op = "stop" =>
        \A x \in TreeUuids :
            LET due == /\ x \in DOMAIN tree.tasks
                       /\ x = hist.task \/ IsBelow(x, hist.task)
                       /\ ~task_finished(tree.tasks[x])
            IN  /\ tree.out_stop_addr[x] = IF due THEN 1 ELSE 0
                /\ tree.out_stop_controller[x] =
                      IF due /\ tree.tasks[x].has_controller THEN 1 ELSE 0

\* A stop for the top of a chain of three tasks, the middle one finished:
\* StopTask went to the top and to the grandchild, and not to the middle one.
C10_Witness ==
    /\ hist.op = "stop"
    /\ DOMAIN tree.tasks = TreeUuids
    /\ IsBelow(3, hist.task) /\ IsBelow(2, hist.task)
    /\ tree.tasks[3].parent = 2
    /\ task_finished(tree.tasks[2])
    /\ tree.tasks[3].has_controller
    /\ tree.out_stop_addr[3] = 1 /\ tree.out_stop_controller[3] = 1
    /\ tree.out_stop_addr[2] = 0
    /\ tree.out_stop_addr[hist.task] = 1

\* C12: a record of the tree whose status is FinishedSuccess or
\* FinishedFailure is, after any message the tree handles, either gone or
\* still finished: no step makes the record under that uuid Running again.
C12_FinishedStaysFinished ==
    [][\A u \in DOMAIN tree.tasks :
          (task_finished(tree.tasks[u]) /\ u \in DOMAIN tree'.tasks)
              => task_finished(tree'.tasks[u])]_vars

\* The tree has handled an update with status Running for a task that had
\* finished in failure, and the record is still FinishedFailure.
C12_Witness ==
    /\ hist.op = "update"
    /\ hist.status = "Running"
    /\ hist.task \in DOMAIN tree.tasks
    /\ tree.tasks[hist.task].task_status = "FinishedFailure"

\* The child sets of the records that were in the tree before the step, the
\* set of task p enlarged by the uuids in added.
ChildSetsAfter(p, added) ==
    \A x \in DOMAIN tree.tasks :
        /\ x \in DOMAIN tree'.tasks
        /\ tree'.tasks[x].child_tasks =
              IF x = p THEN tree.tasks[x].child_tasks \cup added
                       ELSE tree.tasks[x].child_tasks

\* C13: a NewTask with a non-empty parent uuid either finds the parent's
\* record, and then the new uuid joins the child set of that parent and of no
\* other task, or is fatal (the handler panics and no child set changes); a
\* NewTask with an empty parent uuid changes no child set and is not fatal.
\* The new record starts with an empty child set in every case.
C13_ParentAtCreation ==
    [][hist'.op = "new" =>
         /\ hist'.task \in DOMAIN tree'.tasks
         /\ hist'.task \notin DOMAIN tree.tasks
         /\ tree'.tasks[hist'.task].child_tasks = {}
         /\ LET parent == tree'.tasks[hist'.task].parent
            IN  IF parent = NoTask
                THEN ~tree'.panicked /\ ChildSetsAfter(NoTask, {})
                ELSE IF parent \in DOMAIN tree.tasks
                THEN ~tree'.panicked /\ ChildSetsAfter(parent, {hist'.task})
                ELSE tree'.panicked /\ ChildSetsAfter(NoTask, {})]_vars

\* A third task has entered the tree below the second, which is below the
\* first: it is a child of the second and not of the first.
C13_Witness ==
    /\ hist.op = "new"
    /\ hist.task = 3
    /\ DOMAIN tree.tasks = TreeUuids
    /\ tree.tasks[3].parent = 2
    /\ tree.tasks[2].child_tasks = {3}
    /\ tree.tasks[1].child_tasks = {2}
    /\ ~tree.panicked

\* The step has sent the CloseTask notifications for task x, one to the
\* tracker and one to the controller if the task has one, and has removed
\* the record of x and its to-close mark.
ClosedAtOnce(x) ==
    /\ x \notin DOMAIN tree'.tasks
    /\ x \notin tree'.tasks_to_close
    /\ tree'.out_close_tracker[x] = 1
    /\ tree'.out_close_controller[x] =
          IF tree.tasks[x].has_controller THEN 1 ELSE 0

\* The step has left the record of x as it was, has marked x to close and
\* has sent a StopTask for it, and no CloseTask notification.
CloseDeferred(x) ==
    /\ x \in DOMAIN tree'.tasks
    /\ tree'.tasks[x] = tree.tasks[x]
    /\ x \in tree'.tasks_to_close
    /\ tree'.out_stop_addr[x] >= 1
    /\ tree'.out_close_tracker[x] = 0
    /\ tree'.out_close_controller[x] = 0

\* The step has applied the close to every task below p.
ClosedBelow(p) ==
    \A x \in DOMAIN tree.tasks :
        IsBelow(x, p) =>
            IF task_finished(tree.tasks[x]) THEN ClosedAtOnce(x)
                                            ELSE CloseDeferred(x)

\* C14: a close of a finished task notifies the tracker and the task's
\* controller and removes the record in the same step; a close of an
\* unfinished task keeps the record, marks it to close and sends a StopTask;
\* the terminal update of a task marked to close removes the record with the
\* same notifications, and the terminal update of an unmarked task keeps it;
\* each of these closes is applied to every task below the closed one.
C14_CloseSemantics ==
    [][/\ (hist'.op = "close" /\ hist'.task \in DOMAIN tree.tasks) =>
            /\ IF task_finished(tree.tasks[hist'.task])
               THEN ClosedAtOnce(hist'.task)
               ELSE CloseDeferred(hist'.task)
            /\ ClosedBelow(hist'.task)
       /\ (/\ hist'.op = "update"
           /\ hist'.status \in {"FinishedSuccess", "FinishedFailure"}
           /\ hist'.task \in DOMAIN tree.tasks) =>
            IF hist'.task \in tree.tasks_to_close
            THEN ClosedAtOnce(hist'.task) /\ ClosedBelow(hist'.task)
            ELSE /\ hist'.task \in DOMAIN tree'.tasks
                 /\ tree'.tasks[hist'.task].task_status = hist'.status
                 /\ tree'.out_close_tracker = NoneSent
       /\ \A x \in DOMAIN tree.tasks \ DOMAIN tree'.tasks :
            /\ task_finished(tree.tasks[x]) \/ x = hist'.task
            /\ hist'.op \in {"close", "restart", "update"}]_vars

\* The terminal update of a task that was closed while running has removed
\* its record and notified the tracker and its controller; the running child
\* of the task stays in the tree, marked to close.
C14_Witness ==
    /\ hist.op = "update"
    /\ hist.task = 1
    /\ 1 \notin DOMAIN tree.tasks
    /\ tree.out_close_tracker[1] = 1
    /\ tree.out_close_controller[1] = 1
    /\ 2 \in DOMAIN tree.tasks
    /\ tree.tasks[2].parent = 1
    /\ ~task_finished(tree.tasks[2])
    /\ 2 \in tree.tasks_to_close
    /\ tree.tasks_to_restart = {}

(***************************************************************************)
(* SpecRestart: the task tree under the same messages as in SpecTree.  The *)
(* observer counts, for every uuid, the RestartTask messages handled while *)
(* the uuid had a record in the tree (asked) and the times the task was    *)
(* handed to the processor for a restart (handed).                         *)
(***************************************************************************)
\* The tasks the latest handler handed to the processor.
HandedNow == tree'.to_processor \ tree.to_processor

RestartObserve(op, task) ==
    hist' = [op |-> op, task |-> task,
             asked |-> [u \in TreeUuids |->
                 IF op = "restart" /\ u = task /\ u \in DOMAIN tree.tasks
                 THEN Bump(hist.asked[u]) ELSE hist.asked[u]],
             handed |-> [u \in TreeUuids |->
                 hist.handed[u]
                     + Cardinality({r \in HandedNow : r.old = u})]]

InitRestart ==
    /\ env \in [external_worker : {FALSE}, simple_protocol : {FALSE}]
    /\ controllers = <<>>
    /\ pool = NoPool
    /\ tree = TaskTree_default
    /\ tracker = NoTracker
    /\ assistant = NoAssistant
    /\ RestIdle
    /\ hist = [op |-> "new", task |-> NoTask,
               asked |-> [u \in TreeUuids |-> 0],
               handed |-> [u \in TreeUuids |-> 0]]

NextRestart ==
    \/ \E parent \in 0..tree.generated, has_controller \in BOOLEAN :
          /\ NewTask(tree.generated + 1, parent, has_controller)
          /\ RestartObserve("new", tree.generated + 1)
    \/ \E r \in tree.to_processor, has_controller \in BOOLEAN :
          /\ NewTask(r.uuid, r.parent, has_controller)
          /\ RestartObserve("new", r.uuid)
    \/ \E u \in TreeUuids, status \in TaskStatuses :
          TreeTaskUpdate(u, status) /\ RestartObserve("update", u)
    \/ \E u \in TreeUuids : TreeStopTask(u) /\ RestartObserve("stop", u)
    \/ \E u \in TreeUuids : TreeCloseTask(u) /\ RestartObserve("close", u)
    \/ \E u \in TreeUuids : TreeRestartTask(u) /\ RestartObserve("restart", u)

SpecRestart == InitRestart /\ [][NextRestart]_vars

\* A task handed to the processor has a new uuid that differs from its
\* previous one, and the previous uuid has no record in the tree and is in
\* neither set of marks, then and ever after.
RestartIdentity ==
    /\ \A r \in tree.to_processor :
          /\ r.uuid # r.old
          /\ r.uuid \notin DOMAIN tree.tasks
    /\ \A u \in TreeUuids :
          hist.handed[u] >= 1 =>
              /\ u \notin DOMAIN tree.tasks
              /\ u \notin tree.tasks_to_close
              /\ u \notin tree.tasks_to_restart

\* A restart mark stays on a record of the tree until the hand-over.
MarkedForRestart ==
    \A u \in tree.tasks_to_restart :
        /\ u \in DOMAIN tree.tasks
        /\ hist.asked[u] >= 1
        /\ hist.handed[u] = 0

\* C11 as claimed: a task marked for restart that is closed loses its record
\* and its marks and is handed to the processor under a new uuid different
\* from the previous one, as many times as RestartTask was handled for it.
C11_OncePerRestartTask ==
    /\ RestartIdentity
    /\ MarkedForRestart
    /\ \A u \in TreeUuids :
          (hist.asked[u] >= 1 /\ u \notin DOMAIN tree.tasks)
              => hist.handed[u] = hist.asked[u]

\* C11 as amended: a task marked for restart that is closed loses its record
\* and its marks and is handed to the processor under a new uuid different
\* from the previous one, exactly once however many RestartTask messages
\* were handled for it; a uuid is handed over only after a RestartTask for
\* it, and the closing step is the step that hands it over.
C11_OncePerMarkedUuid ==
    /\ RestartIdentity
    /\ MarkedForRestart
    /\ \A u \in TreeUuids :
          /\ hist.handed[u] <= 1
          /\ hist.handed[u] = 1
                <=> (hist.asked[u] >= 1 /\ u \notin DOMAIN tree.tasks)

\* A task was marked for restart while running, by two RestartTask messages,
\* lost its record at its terminal update and is on its way under uuid 2.
C11_Witness ==
    /\ hist.op = "update"
    /\ hist.task = 1
    /\ hist.asked[1] = 2
    /\ hist.handed[1] = 1
    /\ 1 \notin DOMAIN tree.tasks
    /\ \E r \in tree.to_processor : r.old = 1 /\ r.uuid = 2

(***************************************************************************)
(* worker/tracker.rs: the TaskTracker actor.                               *)
(*                                                                         *)
(* A HashMap keyed by a uuid or a name is a function on the keys it holds; *)
(* a recipient is known by the subscriber uuid it was stored under.  The   *)
(* cache center_messages is a function on all four tags whose value NoMsg  *)
(* stands for an absent key.  A center message is known by the number of   *)
(* the update that carried it.  out is the sequence of messages the        *)
(* latest handler sent, in the order of the sends.  The order in which a   *)
(* HashMap of subscribers is walked is not fixed by the code: the handler  *)
(* takes it as an argument.  try_send fails for the subscribers whose      *)
(* mailbox is full or closed; they are an argument too.                    *)
(***************************************************************************)
TaskNames == {"n1", "n2"}

EmptyName == ""

\* The name a task carries in all its updates.
NameOf(task_uuid) == IF task_uuid = 1 THEN "n1" ELSE "n2"

TaskUpdateTags == {"Started", "Updated", "Finished", "Question"}

tag_order == <<"Started", "Updated", "Finished", "Question">>

NoMsg == 0

TrackerItem_new ==
    [subscribers |-> {}, center_messages |-> [t \in TaskUpdateTags |-> NoMsg]]

TaskTracker_default ==
    [items |-> <<>>,
     task_update_recipients |-> {},
     subscribers_by_name |-> <<>>,
     panicked |-> FALSE,
     out |-> <<>>]

BeginTracker(tr) == [tr EXCEPT !.out = <<>>]

Panic(tr) == [tr EXCEPT !.panicked = TRUE]

TaskUpdate_new(task_uuid, status, tag, name) ==
    [task_uuid |-> task_uuid, name |-> name, status |-> status,
     center_msg |-> NoMsg, tag |-> tag]

TaskUpdate_with_center_msg(task_uuid, status, center_msg, tag, name) ==
    [task_uuid |-> task_uuid, name |-> name, status |-> status,
     center_msg |-> center_msg, tag |-> tag]

TaskSubscription(subscribe, task_uuid, subscriber_uuid, name, by_name, addr) ==
    [subscribe |-> subscribe, task_uuid |-> task_uuid,
     subscriber_uuid |-> subscriber_uuid, name |-> name, by_name |-> by_name,
     subscriber |-> addr]

\* get_recipient finds a recipient: the one given, or the registered one.
get_recipient(tr, msg) ==
    msg.subscriber \/ msg.subscriber_uuid \in tr.task_update_recipients

subscribe(tr, msg) ==
    IF ~get_recipient(tr, msg) THEN Panic(tr)
    ELSE IF msg.by_name
    THEN IF msg.name = EmptyName THEN Panic(tr)
         ELSE [tr EXCEPT !.subscribers_by_name =
                 Insert(@, msg.name,
                        IF msg.name \in DOMAIN @
                        THEN @[msg.name] \cup {msg.subscriber_uuid}
                        ELSE {msg.subscriber_uuid})]
    ELSE IF /\ msg.name \in DOMAIN tr.subscribers_by_name
            /\ msg.subscriber_uuid \in tr.subscribers_by_name[msg.name]
    THEN tr
    ELSE [tr EXCEPT !.items =
             Insert(@, msg.task_uuid,
                    LET item == IF msg.task_uuid \in DOMAIN @
                                THEN @[msg.task_uuid] ELSE TrackerItem_new
                    IN  [item EXCEPT
                           !.subscribers = @ \cup {msg.subscriber_uuid}])]

unsubscribe(tr, msg) ==
    IF msg.by_name
    THEN IF msg.name = EmptyName \/ msg.name \notin DOMAIN tr.subscribers_by_name
         THEN Panic(tr)
         ELSE [tr EXCEPT !.subscribers_by_name[msg.name] =
                            @ \ {msg.subscriber_uuid}]
    ELSE IF msg.task_uuid \in DOMAIN tr.items
    THEN [tr EXCEPT !.items[msg.task_uuid].subscribers =
                       @ \ {msg.subscriber_uuid}]
    ELSE tr

\* A message sent: a TaskUpdate to a subscriber or an actor, or a raw message
\* to the center connector.
Sent(to, id, update, raw) ==
    [to |-> to, id |-> id, update |-> update, raw |-> raw]

NoUpdate == TaskUpdate_new(NoTask, "None", "None", EmptyName)

\* The "closed" status message of send_center_task_closed.
ClosedMsg == 0 - 1

SendUpdate(tr, to, id, update) ==
    [tr EXCEPT !.out = Append(@, Sent(to, id, update, NoMsg))]

SendCenter(tr, raw) ==
    [tr EXCEPT !.out = Append(@, Sent("center", NoTask, NoUpdate, raw))]

\* cmd_send_center_messages that walks the cache from the last tag to the
\* first.
cmd_send_center_messages_reversed(tr, task_uuid) ==
    IF task_uuid \in DOMAIN tr.items
    THEN LET cache == tr.items[task_uuid].center_messages
             held == SelectSeq(<<"Question", "Finished", "Updated", "Started">>,
                               LAMBDA tag : cache[tag] # NoMsg)
         IN  [tr EXCEPT !.out =
                 @ \o [k \in 1..Len(held) |->
                          Sent("center", NoTask, NoUpdate, cache[held[k]])]]
    ELSE tr

cmd_send_center_messages(tr, task_uuid) ==
    IF task_uuid \in DOMAIN tr.items
    THEN LET cache == tr.items[task_uuid].center_messages
             held == SelectSeq(tag_order, LAMBDA tag : cache[tag] # NoMsg)
         IN  [tr EXCEPT !.out =
                 @ \o [k \in 1..Len(held) |->
                          Sent("center", NoTask, NoUpdate, cache[held[k]])]]
    ELSE tr

handle_control_msg(tr, cmd, orig_id) ==
    IF cmd = "send_center_messages" THEN cmd_send_center_messages(tr, orig_id)
    ELSE tr

\* The loop over item.subscribers.values(): try_send in the order walked; the
\* first refusal panics.
RECURSIVE try_send_each(_, _, _, _)
try_send_each(tr, order, refusing, msg_short) ==
    IF order = <<>> THEN tr
    ELSE IF Head(order) \in refusing THEN Panic(tr)
    ELSE try_send_each(SendUpdate(tr, "subscriber", Head(order), msg_short),
                       Tail(order), refusing, msg_short)

\* The loop over the by-name subscribers: do_send, whose failure is ignored.
RECURSIVE do_send_each(_, _, _)
do_send_each(tr, order, msg_short) ==
    IF order = <<>> THEN tr
    ELSE do_send_each(SendUpdate(tr, "subscriber_by_name", Head(order), msg_short),
                      Tail(order), msg_short)

\* The end of handle_task_update: a terminal status removes the task's own
\* registration and its subscriptions to other tasks and to names.
remove_subscriptions(tr, msg_short) ==
    IF msg_short.status \in {"FinishedSuccess", "FinishedFailure"}
    THEN [tr EXCEPT
            !.task_update_recipients = @ \ {msg_short.task_uuid},
            !.items = [u \in DOMAIN @ |->
                [@[u] EXCEPT !.subscribers = @ \ {msg_short.task_uuid}]],
            !.subscribers_by_name = [n \in DOMAIN @ |->
                @[n] \ {msg_short.task_uuid}]]
    ELSE tr

\* handle_task_update that serves the task tree before the subscribers.
handle_task_update_tree_first(tr, msg, order, name_order, refusing) ==
    LET msg_short == TaskUpdate_new(msg.task_uuid, msg.status, msg.tag,
                                    msg.name)
        t0 == IF msg.task_uuid \in DOMAIN tr.items THEN tr
              ELSE [tr EXCEPT !.items =
                       Insert(@, msg.task_uuid, TrackerItem_new)]
        t1 == try_send_each(SendUpdate(t0, "task_tree", NoTask, msg_short),
                            order, refusing, msg_short)
        t2 == IF msg.center_msg # NoMsg
              THEN [SendCenter(t1, msg.center_msg) EXCEPT
                      !.items[msg.task_uuid].center_messages[msg.tag] =
                          msg.center_msg]
              ELSE t1
        t3 == do_send_each(t2, name_order, msg_short)
        t4 == SendUpdate(SendUpdate(t3, "task_assistant", NoTask, msg_short),
                         "app_state", NoTask, msg_short)
    IN  IF t1.panicked THEN t1 ELSE remove_subscriptions(t4, msg_short)

\* handle_task_update that keeps the subscriptions of a finished task.
handle_task_update_keeps_subscriptions(tr, msg, order, name_order, refusing) ==
    LET msg_short == TaskUpdate_new(msg.task_uuid, msg.status, msg.tag,
                                    msg.name)
        t0 == IF msg.task_uuid \in DOMAIN tr.items THEN tr
              ELSE [tr EXCEPT !.items =
                       Insert(@, msg.task_uuid, TrackerItem_new)]
        t1 == try_send_each(t0, order, refusing, msg_short)
        t2 == IF msg.center_msg # NoMsg
              THEN [SendCenter(t1, msg.center_msg) EXCEPT
                      !.items[msg.task_uuid].center_messages[msg.tag] =
                          msg.center_msg]
              ELSE t1
        t3 == do_send_each(t2, name_order, msg_short)
        t4 == SendUpdate(
                  SendUpdate(SendUpdate(t3, "task_tree", NoTask, msg_short),
                             "task_assistant", NoTask, msg_short),
                  "app_state", NoTask, msg_short)
    IN  IF t1.panicked THEN t1
        ELSE [t4 EXCEPT !.task_update_recipients =
                           IF msg.status \in {"FinishedSuccess",
                                              "FinishedFailure"}
                           THEN @ \ {msg.task_uuid} ELSE @]

\* handle_task_update that drops the item of a finished task.
handle_task_update_drops_item(tr, msg, order, name_order, refusing) ==
    LET msg_short == TaskUpdate_new(msg.task_uuid, msg.status, msg.tag,
                                    msg.name)
        t0 == IF msg.task_uuid \in DOMAIN tr.items THEN tr
              ELSE [tr EXCEPT !.items =
                       Insert(@, msg.task_uuid, TrackerItem_new)]
        t1 == try_send_each(t0, order, refusing, msg_short)
        t2 == IF msg.center_msg # NoMsg
              THEN [SendCenter(t1, msg.center_msg) EXCEPT
                      !.items[msg.task_uuid].center_messages[msg.tag] =
                          msg.center_msg]
              ELSE t1
        t3 == do_send_each(t2, name_order, msg_short)
        t4 == SendUpdate(
                  SendUpdate(SendUpdate(t3, "task_tree", NoTask, msg_short),
                             "task_assistant", NoTask, msg_short),
                  "app_state", NoTask, msg_short)
        t5 == remove_subscriptions(t4, msg_short)
    IN  IF t1.panicked THEN t1
        ELSE IF msg.status \in {"FinishedSuccess", "FinishedFailure"}
        THEN [t5 EXCEPT !.items = Remove(@, msg.task_uuid)]
        ELSE t5

tracker_handle_task_update(tr, msg, order, name_order, refusing) ==
    LET msg_short == TaskUpdate_new(msg.task_uuid, msg.status, msg.tag,
                                    msg.name)
        t0 == IF msg.task_uuid \in DOMAIN tr.items THEN tr
              ELSE [tr EXCEPT !.items =
                       Insert(@, msg.task_uuid, TrackerItem_new)]
        t1 == try_send_each(t0, order, refusing, msg_short)
        t2 == IF msg.center_msg # NoMsg
              THEN [SendCenter(t1, msg.center_msg) EXCEPT
                      !.items[msg.task_uuid].center_messages[msg.tag] =
                          msg.center_msg]
              ELSE t1
        t3 == do_send_each(t2, name_order, msg_short)
        t4 == SendUpdate(
                  SendUpdate(SendUpdate(t3, "task_tree", NoTask, msg_short),
                             "task_assistant", NoTask, msg_short),
                  "app_state", NoTask, msg_short)
    IN  IF t1.panicked THEN t1 ELSE remove_subscriptions(t4, msg_short)

\* send_center_task_closed and the CloseTask for the app state
tracker_handle_close_task(tr, task_uuid) ==
    SendUpdate(SendCenter([tr EXCEPT !.items = Remove(@, task_uuid)],
                          ClosedMsg),
               "app_state", NoTask,
               TaskUpdate_new(task_uuid, "None", "CloseTask", EmptyName))

register_task_update_recipient(tr, id) ==
    IF id \in tr.task_update_recipients THEN Panic(tr)
    ELSE [tr EXCEPT !.task_update_recipients = @ \cup {id}]

unregister_task_update_recipient(tr, id) ==
    [tr EXCEPT !.task_update_recipients = @ \ {id}]

\* Handler<DismissTaskQuestion>
dismiss_task_question(tr, task_uuid) ==
    IF task_uuid \in DOMAIN tr.items
    THEN [tr EXCEPT !.items[task_uuid].center_messages["Question"] = NoMsg]
    ELSE tr

TrackerStep(tr) ==
    /\ ~tracker.panicked
    /\ tracker' = tr
    /\ UNCHANGED <<env, controllers, pool, tree, assistant, rest>>

\* Handler<TaskSubscription>
TrackerSubscription(msg) ==
    TrackerStep(IF msg.subscribe THEN subscribe(BeginTracker(tracker), msg)
                                 ELSE unsubscribe(BeginTracker(tracker), msg))

\* Handler<RegisterTaskUpdateRecipient>
TrackerRegister(register, id) ==
    TrackerStep(IF register
                THEN register_task_update_recipient(BeginTracker(tracker), id)
                ELSE unregister_task_update_recipient(BeginTracker(tracker),
                                                      id))

\* Handler<TaskUpdate>
TrackerTaskUpdate(msg, order, name_order, refusing) ==
    TrackerStep(tracker_handle_task_update(BeginTracker(tracker), msg, order,
                                           name_order, refusing))

\* Handler<CloseTask>
TrackerCloseTask(task_uuid) ==
    TrackerStep(tracker_handle_close_task(BeginTracker(tracker), task_uuid))

\* Handler<ControlMessage>
TrackerControlMessage(cmd, orig_id) ==
    TrackerStep(handle_control_msg(BeginTracker(tracker), cmd, orig_id))

\* Handler<DismissTaskQuestion>
TrackerDismissTaskQuestion(task_uuid) ==
    TrackerStep(dismiss_task_question(BeginTracker(tracker), task_uuid))

(***************************************************************************)
(* Two specifications of the tracker.  Both number the updates in the      *)
(* order of arrival and give each the center message of that number, as    *)
(* the updates of center/send.rs all carry one.  The observer records the  *)
(* message handled by the latest step, the number of updates so far, the   *)
(* last center message seen per task and tag since the task's item was     *)
(* last removed (a dismissed question forgotten), the tasks whose terminal *)
(* update has been handled and that have not been closed since, and the    *)
(* number of subscriber sets the latest step removed the task from.        *)
(*                                                                         *)
(* SpecReplay: updates, subscriptions by uuid with a recipient given,      *)
(* CloseTask, the control command send_center_messages and the dismissal   *)
(* of a question.                                                          *)
(*                                                                         *)
(* SpecFanout: registrations, subscriptions by uuid and by name, and       *)
(* updates; a subscriber may refuse a message.                             *)
(***************************************************************************)
MaxUpdates == 3

MaxFanoutUpdates == 1

\* The updates of center/send.rs: tag and status.
UpdateKinds ==
    {<<"Started", "Running">>, <<"Updated", "Running">>,
     <<"Question", "Running">>, <<"Finished", "FinishedSuccess">>,
     <<"Finished", "FinishedFailure">>}

\* The orders in which a set can be walked.
Orders(S) == {seq \in [1..Cardinality(S) -> S] : Range(seq) = S}

\* At most one subscriber refuses a message at a time.
Refusals == {{}} \cup {{s} : s \in Tasks}

SubscribersOf(task_uuid) ==
    IF task_uuid \in DOMAIN tracker.items
    THEN tracker.items[task_uuid].subscribers ELSE {}

SubscribersByName(name) ==
    IF name \in DOMAIN tracker.subscribers_by_name
    THEN tracker.subscribers_by_name[name] ELSE {}

NoneCached == [t \in TaskUpdateTags |-> NoMsg]

\* The number of subscriber sets that hold the task.
SetsHolding(tr, task_uuid) ==
    Cardinality({u \in DOMAIN tr.items :
                    task_uuid \in tr.items[u].subscribers})
    + Cardinality({n \in DOMAIN tr.subscribers_by_name :
                    task_uuid \in tr.subscribers_by_name[n]})

TrackerObserve(op, task, status, tag, center_msg) ==
    hist' = [op |-> op, task |-> task, status |-> status, tag |-> tag,
             sent |-> IF op = "update" THEN hist.sent + 1 ELSE hist.sent,
             last |-> [u \in Tasks |->
                 IF u # task THEN hist.last[u]
                 ELSE IF op = "update" /\ ~tracker'.panicked
                 THEN [hist.last[u] EXCEPT ![tag] = center_msg]
                 ELSE IF op = "close" THEN NoneCached
                 ELSE IF op = "dismiss"
                 THEN [hist.last[u] EXCEPT !["Question"] = NoMsg]
                 ELSE hist.last[u]],
             finished |->
                 IF op = "update" /\ ~tracker'.panicked
                    /\ status \in {"FinishedSuccess", "FinishedFailure"}
                 THEN hist.finished \cup {task}
                 ELSE IF op = "close" THEN hist.finished \ {task}
                 ELSE hist.finished,
             removed |-> IF op = "update"
                         THEN SetsHolding(tracker, task)
                                  - SetsHolding(tracker', task)
                         ELSE 0]

InitTracker ==
    /\ env \in [external_worker : {FALSE}, simple_protocol : {FALSE}]
    /\ controllers = <<>>
    /\ pool = NoPool
    /\ tree = NoTree
    /\ tracker = TaskTracker_default
    /\ assistant = NoAssistant
    /\ RestIdle
    /\ hist = [op |-> "start", task |-> NoTask, status |-> "None",
               tag |-> "None", sent |-> 0,
               last |-> [u \in Tasks |-> NoneCached],
               finished |-> {}, removed |-> 0]

\* An update of task u arrives; the subscribers are walked in any order.
UpdateArrives(u, kind, refusing) ==
    \E order \in Orders(SubscribersOf(u)),
       name_order \in Orders(SubscribersByName(NameOf(u))) :
       /\ TrackerTaskUpdate(
              TaskUpdate_with_center_msg(u, kind[2], hist.sent + 1, kind[1],
                                         NameOf(u)),
              order, name_order, refusing)
       /\ TrackerObserve("update", u, kind[2], kind[1], hist.sent + 1)

NextReplay ==
    \/ \E u \in Tasks, kind \in UpdateKinds :
          hist.sent < MaxUpdates /\ UpdateArrives(u, kind, {})
    \/ \E t \in Tasks, s \in Tasks, yes \in BOOLEAN :
          /\ s # t
          /\ TrackerSubscription(
                 TaskSubscription(yes, t, s, NameOf(t), FALSE, TRUE))
          /\ TrackerObserve("subscription", t, "None", "None", NoMsg)
    \/ \E u \in Tasks :
          /\ TrackerCloseTask(u)
          /\ TrackerObserve("close", u, "None", "None", NoMsg)
    \/ \E u \in Tasks :
          /\ TrackerControlMessage("send_center_messages", u)
          /\ TrackerObserve("replay", u, "None", "None", NoMsg)
    \/ \E u \in Tasks :
          /\ TrackerDismissTaskQuestion(u)
          /\ TrackerObserve("dismiss", u, "None", "None", NoMsg)

SpecReplay == InitTracker /\ [][NextReplay]_vars

NextFanout ==
    \/ \E id \in Tasks :
          /\ id \notin tracker.task_update_recipients
          /\ TrackerRegister(TRUE, id)
          /\ TrackerObserve("register", NoTask, "None", "None", NoMsg)
    \/ \E t \in Tasks, s \in Tasks :
          /\ TrackerSubscription(
                 TaskSubscription(TRUE, t, s, NameOf(t), FALSE, FALSE))
          /\ TrackerObserve("subscription", NoTask, "None", "None", NoMsg)
    \/ \E n \in TaskNames, s \in Tasks :
          /\ TrackerSubscription(
                 TaskSubscription(TRUE, NoTask, s, n, TRUE, FALSE))
          /\ TrackerObserve("subscription", NoTask, "None", "None", NoMsg)
    \/ \E u \in Tasks, kind \in UpdateKinds, refusing \in Refusals :
          hist.sent < MaxFanoutUpdates /\ UpdateArrives(u, kind, refusing)

SpecFanout == InitTracker /\ [][NextFanout]_vars

\* The raw messages of a sequence of sent messages.
RawOf(out) == [k \in 1..Len(out) |-> out[k].raw]

\* The messages of a cache in the order Started, Updated, Finished, Question.
Held(last) ==
    SelectSeq(<<last["Started"], last["Updated"], last["Finished"],
                last["Question"]>>,
              LAMBDA m : m # NoMsg)

\* C15: the control command send_center_messages for a task sends to the
\* center connector exactly the last center message seen per tag for that
\* task, at most one per tag, the Started one first, then Updated, Finished
\* and Question, whatever the order in which they arrived; for a task without
\* an item it sends nothing.
C15_ReplayOrdering ==
    [][hist'.op = "replay" =>
         /\ RawOf(tracker'.out) = Held(hist.last[hist'.task])
         /\ \A k \in 1..Len(tracker'.out) : tracker'.out[k].to = "center"
         /\ hist'.task \notin DOMAIN tracker.items => tracker'.out = <<>>
         /\ tracker'.items = tracker.items]_vars

\* A replay for task 1 after its updates 1 and 2, both questions, and its
\* update 3, the start: the start was sent first, then the second question.
C15_Witness ==
    /\ hist.op = "replay"
    /\ hist.task = 1
    /\ hist.last[1]["Question"] = 2
    /\ hist.last[1]["Started"] = 3
    /\ RawOf(tracker.out) = <<3, 2>>

C16_TerminalCleanup ==
    (/\ hist.op = "update"
     /\ hist.status \in {"FinishedSuccess", "FinishedFailure"}
     /\ ~tracker.panicked) =>
        /\ \A u \in DOMAIN tracker.items :
              hist.task \notin tracker.items[u].subscribers
        /\ \A n \in DOMAIN tracker.subscribers_by_name :
              hist.task \notin tracker.subscribers_by_name[n]
        /\ hist.task \notin tracker.task_update_recipients

\* The terminal update of a task took it out of three subscriber sets or
\* more: items and by-name sets of both names.
C16_Witness ==
    /\ hist.op = "update"
    /\ hist.status = "FinishedFailure"
    /\ ~tracker.panicked
    /\ hist.removed >= 3
    /\ DOMAIN tracker.subscribers_by_name = TaskNames

\* The update the tracker passes on: the update handled, without its center
\* message.
LiteUpdate(h) == TaskUpdate_new(h.task, h.status, h.tag, NameOf(h.task))

\* The TaskUpdate messages among the messages sent.
UpdatesOf(out) == SelectSeq(out, LAMBDA m : m.to # "center")

\* The step has sent the lite update to every per-uuid subscriber of the task,
\* then to every by-name subscriber of its name, then to the task tree, the
\* task assistant and the app state.
FanoutInOrder ==
    LET subs == SubscribersOf(hist'.task)
        names == SubscribersByName(NameOf(hist'.task))
        a == Cardinality(subs)
        b == Cardinality(names)
        ups == UpdatesOf(tracker'.out)
    IN  /\ ~tracker'.panicked
        /\ Len(ups) = a + b + 3
        /\ \A k \in 1..Len(ups) :
              /\ ups[k].update = LiteUpdate(hist')
              /\ ups[k].update.center_msg = NoMsg
              /\ ups[k].raw = NoMsg
        /\ \A k \in 1..a : ups[k].to = "subscriber"
        /\ {ups[k].id : k \in 1..a} = subs
        /\ \A k \in 1..b : ups[a + k].to = "subscriber_by_name"
        /\ {ups[a + k].id : k \in 1..b} = names
        /\ ups[a + b + 1].to = "task_tree"
        /\ ups[a + b + 2].to = "task_assistant"
        /\ ups[a + b + 3].to = "app_state"

\* The step has panicked at a per-uuid subscriber that refused the update:
\* only per-uuid subscribers walked before it have been sent the lite update,
\* and the items, their caches and the subscriptions are as they were.
FanoutCut ==
    LET subs == SubscribersOf(hist'.task)
        out == tracker'.out
    IN  /\ tracker'.panicked
        /\ Len(out) < Cardinality(subs)
        /\ \A k \in 1..Len(out) :
              /\ out[k].to = "subscriber"
              /\ out[k].id \in subs
              /\ out[k].update = LiteUpdate(hist')
        /\ \A j, k \in 1..Len(out) : out[j].id = out[k].id => j = k
        /\ tracker'.items = tracker.items
        /\ tracker'.subscribers_by_name = tracker.subscribers_by_name
        /\ tracker'.task_update_recipients = tracker.task_update_recipients

\* C18 as claimed: for every update the tracker sends the lite update, which
\* carries no center message, to the per-uuid subscribers, then to the by-name
\* subscribers, then to the task tree, the task assistant and the app state.
C18_FanoutOrder ==
    [][hist'.op = "update" => FanoutInOrder]_vars

\* C18 as amended: for every update the tracker either sends the lite update
\* in that order, or panics at a per-uuid subscriber whose mailbox refuses
\* it, having served only per-uuid subscribers before that one.
C18_FanoutOrderUnlessRefused ==
    [][hist'.op = "update" => (FanoutInOrder \/ FanoutCut)]_vars

\* An update was sent to two per-uuid subscribers, its center message to the
\* center, then the update to a by-name subscriber and to the task tree.
C18_Witness ==
    /\ hist.op = "update"
    /\ ~tracker.panicked
    /\ Len(tracker.out) = 7
    /\ tracker.out[1].to = "subscriber"
    /\ tracker.out[2].to = "subscriber"
    /\ tracker.out[1].id # tracker.out[2].id
    /\ tracker.out[3].to = "center"
    /\ tracker.out[4].to = "subscriber_by_name"
    /\ tracker.out[5].to = "task_tree"

(***************************************************************************)
(* worker/task_assistant.rs: the TaskAssistant actor.                      *)
(*                                                                         *)
(* tasks maps a registered uuid to its restart delay.  ctx.run_later puts  *)
(* a timer into timers, with the time it is due; the timer fires at that   *)
(* time or later and its closure sends RestartTask to the task tree.  now  *)
(* is the time, in units of the delay.  inbox holds the updates the        *)
(* tracker has sent to the assistant and to_tree the messages sent to the  *)
(* task tree, by the tracker and by the assistant's timers, each in the    *)
(* order of sending.                                                       *)
(***************************************************************************)
TaskAssistant_default ==
    [tasks |-> <<>>, timers |-> <<>>, now |-> 0, inbox |-> <<>>,
     to_tree |-> <<>>, panicked |-> FALSE]

TaskAssistantItem_new(task_uuid, restart_delay) == restart_delay

handle_task_recovery(as, task_uuid, restart_delay) ==
    IF task_uuid \in DOMAIN as.tasks
    THEN [as EXCEPT !.tasks[task_uuid] =
                       TaskAssistantItem_new(task_uuid, restart_delay),
                    !.panicked = TRUE]
    ELSE [as EXCEPT !.tasks =
             Insert(@, task_uuid,
                    TaskAssistantItem_new(task_uuid, restart_delay))]

\* ctx.run_later(Duration::from_millis(restart_delay), ..restart_task(uuid))
run_later(as, restart_delay, task_uuid) ==
    [as EXCEPT !.timers =
        Append(@, [task_uuid |-> task_uuid, due |-> as.now + restart_delay])]

\* handle_task_update that keeps the entry of a task that failed.
assistant_handle_task_update_keeps_entry(as, msg) ==
    IF msg.task_uuid \notin DOMAIN as.tasks THEN as
    ELSE IF msg.status = "FinishedSuccess"
    THEN [as EXCEPT !.tasks = Remove(@, msg.task_uuid)]
    ELSE IF msg.status = "FinishedFailure"
    THEN run_later(as, as.tasks[msg.task_uuid], msg.task_uuid)
    ELSE as

\* handle_task_update that restarts a task whatever its terminal status.
assistant_handle_task_update_any_terminal(as, msg) ==
    IF msg.task_uuid \notin DOMAIN as.tasks THEN as
    ELSE IF msg.status \in {"FinishedSuccess", "FinishedFailure"}
    THEN run_later([as EXCEPT !.tasks = Remove(@, msg.task_uuid)],
                   as.tasks[msg.task_uuid], msg.task_uuid)
    ELSE as

assistant_handle_task_update(as, msg) ==
    IF msg.task_uuid \notin DOMAIN as.tasks THEN as
    ELSE IF msg.status = "FinishedSuccess"
    THEN [as EXCEPT !.tasks = Remove(@, msg.task_uuid)]
    ELSE IF msg.status = "FinishedFailure"
    THEN run_later([as EXCEPT !.tasks = Remove(@, msg.task_uuid)],
                   as.tasks[msg.task_uuid], msg.task_uuid)
    ELSE as

\* task_tree::restart_task, called by the closure of a timer
task_tree_restart_task(as, task_uuid) ==
    [as EXCEPT !.to_tree =
        Append(@, [kind |-> "RestartTask", task_uuid |-> task_uuid,
                   status |-> "None"])]

\* The sequence without its element at position k.
Without(seq, k) == [j \in 1..(Len(seq) - 1) |->
                       IF j < k THEN seq[j] ELSE seq[j + 1]]

AssistantStep(as) ==
    /\ ~assistant.panicked
    /\ assistant' = as
    /\ UNCHANGED <<env, controllers, pool, tree, tracker, rest>>

\* Handler<TaskRecovery>
AssistantTaskRecovery(task_uuid, restart_delay) ==
    AssistantStep(handle_task_recovery(assistant, task_uuid, restart_delay))

\* The tracker sends an update to the task tree and to the task assistant
\* (tracker.rs:483-486).
TrackerSendsUpdate(task_uuid, status) ==
    AssistantStep(
        [assistant EXCEPT
           !.to_tree = Append(@, [kind |-> "TaskUpdate",
                                  task_uuid |-> task_uuid, status |-> status]),
           !.inbox = Append(@, TaskUpdate_new(task_uuid, status, "None",
                                              NameOf(task_uuid)))])

\* Handler<TaskUpdate> of the assistant, for the update at the head of inbox
AssistantTaskUpdate ==
    /\ assistant.inbox # <<>>
    /\ AssistantStep(
           assistant_handle_task_update(
               [assistant EXCEPT !.inbox = Tail(@)], Head(assistant.inbox)))

\* Time passes.
Tick ==
    AssistantStep([assistant EXCEPT !.now = @ + 1])

\* The timer at position k fires.
TimerFires(k) ==
    /\ k \in DOMAIN assistant.timers
    /\ assistant.timers[k].due <= assistant.now
    /\ AssistantStep(
           task_tree_restart_task(
               [assistant EXCEPT !.timers = Without(@, k)],
               assistant.timers[k].task_uuid))

\* The task tree handles the message at the head of to_tree: Handler<TaskUpdate>
\* or Handler<RestartTask>.
TreeReceives ==
    /\ assistant.to_tree # <<>>
    /\ ~assistant.panicked
    /\ ~tree.panicked
    /\ LET msg == Head(assistant.to_tree)
           tt == IF msg.kind = "RestartTask"
                 THEN restart_task(BeginTree(tree), msg.task_uuid)
                 ELSE handle_task_update(BeginTree(tree), msg.task_uuid,
                                         msg.status)
       IN  /\ tt.generated <= MaxTreeTasks
           /\ tree' = tt
    /\ assistant' = [assistant EXCEPT !.to_tree = Tail(@)]
    /\ UNCHANGED <<env, controllers, pool, tracker, rest>>

(***************************************************************************)
(* SpecAssistant: a task enters the task tree; it and a task that is not   *)
(* in the tree are registered with the assistant at most once each, as     *)
(* TaskErrorHandler::new does, with a delay                                *)
(* of zero or two units; the tracker sends updates of any status to the    *)
(* tree and the assistant; time passes; timers fire when due or later; the *)
(* tree handles its messages in the order sent.  The observer records the  *)
(* step, the uuids registered so far and their delays, whether the uuid of *)
(* the update handled by the assistant was registered when it arrived, the *)
(* terminal updates the assistant has handled per uuid, the time of the    *)
(* update that scheduled a restart, and the restarts scheduled and         *)
(* delivered to the tree per uuid.                                         *)
(***************************************************************************)
MaxTime == 2

MaxAssistantUpdates == 2

TasksInTree == 1

Delays == {0, 2}

Never == 0 - 1

AssistantObserve(op, task, status) ==
    hist' = [op |-> op, task |-> task, status |-> status,
             updates |-> IF op = "fanout" THEN hist.updates + 1
                         ELSE hist.updates,
             registered |-> IF op = "register"
                            THEN hist.registered \cup {task}
                            ELSE hist.registered,
             delay |-> IF op = "register"
                       THEN [hist.delay EXCEPT ![task] = status]
                       ELSE hist.delay,
             was_registered |-> op = "update" /\ task \in DOMAIN assistant.tasks,
             terminal |->
                 IF op = "update"
                    /\ status \in {"FinishedSuccess", "FinishedFailure"}
                 THEN [hist.terminal EXCEPT ![task] = @ + 1]
                 ELSE hist.terminal,
             failed_at |->
                 IF op = "update"
                    /\ Len(assistant'.timers) > Len(assistant.timers)
                 THEN [hist.failed_at EXCEPT ![task] = assistant.now]
                 ELSE hist.failed_at,
             scheduled |->
                 [u \in Tasks |->
                     hist.scheduled[u]
                         + Cardinality({k \in DOMAIN assistant'.timers :
                                          assistant'.timers[k].task_uuid = u})
                         - Cardinality({k \in DOMAIN assistant.timers :
                                          assistant.timers[k].task_uuid = u})
                         + (IF op = "timer" /\ task = u THEN 1 ELSE 0)],
             delivered |->
                 IF op = "tree" /\ status = "RestartTask"
                 THEN [hist.delivered EXCEPT ![task] = @ + 1]
                 ELSE hist.delivered]

InitAssistant ==
    /\ env \in [external_worker : {FALSE}, simple_protocol : {FALSE}]
    /\ controllers = <<>>
    /\ pool = NoPool
    /\ tree = TaskTree_default
    /\ tracker = NoTracker
    /\ assistant = TaskAssistant_default
    /\ RestIdle
    /\ hist = [op |-> "start", task |-> NoTask, status |-> "None",
               updates |-> 0, registered |-> {},
               delay |-> [u \in Tasks |-> 0], was_registered |-> FALSE,
               terminal |-> [u \in Tasks |-> 0],
               failed_at |-> [u \in Tasks |-> Never],
               scheduled |-> [u \in Tasks |-> 0],
               delivered |-> [u \in Tasks |-> 0]]

NextAssistant ==
    \/ /\ tree.generated < TasksInTree
       /\ ~assistant.panicked
       /\ NewTask(tree.generated + 1, NoTask, TRUE)
       /\ AssistantObserve("new", tree.generated + 1, "None")
    \/ \E u \in Tasks, restart_delay \in Delays :
          /\ u \notin hist.registered
          /\ AssistantTaskRecovery(u, restart_delay)
          /\ AssistantObserve("register", u, restart_delay)
    \/ \E u \in Tasks, status \in TaskStatuses :
          /\ hist.updates < MaxAssistantUpdates
          /\ TrackerSendsUpdate(u, status)
          /\ AssistantObserve("fanout", u, status)
    \/ /\ AssistantTaskUpdate
       /\ AssistantObserve("update", Head(assistant.inbox).task_uuid,
                           Head(assistant.inbox).status)
    \/ /\ assistant.now < MaxTime
       /\ Tick
       /\ AssistantObserve("tick", NoTask, "None")
    \/ \E k \in DOMAIN assistant.timers :
          /\ TimerFires(k)
          /\ AssistantObserve("timer", assistant.timers[k].task_uuid, "None")
    \/ /\ TreeReceives
       /\ AssistantObserve("tree", Head(assistant.to_tree).task_uuid,
                           Head(assistant.to_tree).kind)

SpecAssistant == InitAssistant /\ [][NextAssistant]_vars

\* C19: the FinishedFailure update of a registered task removes the task from
\* the assistant and sets one timer for its uuid, due restart_delay after the
\* update; a RestartTask reaches the task tree only for a uuid so scheduled
\* and no earlier than that; over all the updates of a uuid at most one
\* restart is scheduled and at most one delivered.
C19_FailureRestart ==
    [][/\ (/\ hist'.op = "update"
           /\ hist'.status = "FinishedFailure"
           /\ hist'.task \in DOMAIN assistant.tasks) =>
            /\ assistant'.tasks = Remove(assistant.tasks, hist'.task)
            /\ assistant'.timers =
                  Append(assistant.timers,
                         [task_uuid |-> hist'.task,
                          due |-> assistant.now + hist.delay[hist'.task]])
       /\ (hist'.op = "tree" /\ hist'.status = "RestartTask") =>
            /\ hist.failed_at[hist'.task] # Never
            /\ assistant.now
                  >= hist.failed_at[hist'.task] + hist.delay[hist'.task]
       /\ \A u \in Tasks :
            /\ hist'.scheduled[u] <= 1
            /\ hist'.delivered[u] <= hist'.scheduled[u]
            /\ hist'.scheduled[u] = 1 =>
                  (u \in hist'.registered /\ u \notin DOMAIN assistant'.tasks)
       ]_vars

\* The task tree has received the one RestartTask for task 1, registered with
\* a delay of two units, after the assistant handled two terminal updates of
\* the task; the tree has handed the task to the processor.
C19_Witness ==
    /\ hist.op = "tree"
    /\ hist.status = "RestartTask"
    /\ hist.task = 1
    /\ hist.delay[1] = 2
    /\ hist.terminal[1] = 2
    /\ hist.scheduled[1] = 1
    /\ hist.delivered[1] = 1
    /\ assistant.now >= hist.failed_at[1] + 2
    /\ \E r \in tree.to_processor : r.old = 1

\* C20: handling an update, the assistant schedules a restart if and only if
\* the status is FinishedFailure and the uuid is registered at that moment,
\* and then for that uuid; FinishedSuccess of a registered uuid removes the
\* registration and schedules nothing; any other status leaves the
\* registrations as they are; an update for an unregistered uuid changes
\* nothing; no update sends anything to the task tree at once.
C20_RestartPolicy ==
    [][hist'.op = "update" =>
         LET u == hist'.task
             registered == u \in DOMAIN assistant.tasks
             timers == assistant.timers
         IN  /\ IF hist'.status = "FinishedFailure" /\ registered
                THEN /\ Len(assistant'.timers) = Len(timers) + 1
                     /\ SubSeq(assistant'.timers, 1, Len(timers)) = timers
                     /\ assistant'.timers[Len(timers) + 1].task_uuid = u
                ELSE assistant'.timers = timers
             /\ (hist'.status = "FinishedSuccess" /\ registered) =>
                    assistant'.tasks = Remove(assistant.tasks, u)
             /\ hist'.status \notin {"FinishedSuccess", "FinishedFailure"} =>
                    assistant'.tasks = assistant.tasks
             /\ ~registered => assistant'.tasks = assistant.tasks
             /\ assistant'.to_tree = assistant.to_tree
             /\ ~assistant'.panicked]_vars

\* The assistant has handled the FinishedSuccess update of a registered task:
\* the registration is gone and no restart is or was scheduled.
C20_Witness ==
    /\ hist.op = "update"
    /\ hist.status = "FinishedSuccess"
    /\ hist.was_registered
    /\ hist.task \notin DOMAIN assistant.tasks
    /\ assistant.timers = <<>>
    /\ hist.scheduled[hist.task] = 0

(***************************************************************************)
(* SpecHeartbeat: one controller with its worker process and its           *)
(* heartbeat timers.  The observer records                                 *)
(*   op, spawned   the latest step and whether its spawn succeeded         *)
(*   before        the controller before the step                          *)
(*   recovered     the latest recovery has spawned a new worker            *)
(***************************************************************************)
HeartbeatRequests == 1

HeartbeatObserve(op, spawned) ==
    hist' = [op |-> op,
             spawned |-> spawned,
             before |-> [state |-> controllers[1].state,
                         worker_process |-> controllers[1].worker_process],
             requests |-> IF op = "request" THEN hist.requests + 1
                          ELSE hist.requests,
             recovered |-> IF op = "HeartbeatTimeout" THEN spawned
                           ELSE hist.recovered]

InitHeartbeat ==
    /\ env = [external_worker |-> FALSE, simple_protocol |-> FALSE]
    /\ controllers = <<WorkerController_new("0")>>
    /\ pool = NoPool
    /\ tree = NoTree
    /\ tracker = NoTracker
    /\ assistant = NoAssistant
    /\ RestIdle
    /\ hist = [op |-> "new", spawned |-> FALSE,
               before |-> [state |-> "Initial", worker_process |-> FALSE],
               requests |-> 0, recovered |-> FALSE]

NextHeartbeat ==
    \/ \E spawned \in BOOLEAN :
          /\ ControllerStarted(1, spawned)
          /\ HeartbeatObserve("started", spawned)
    \/ \E subject \in Subjects : \E name \in SignalNames(subject) :
          /\ WorkerSignal(1, subject, name)
          /\ HeartbeatObserve(subject, FALSE)
    \/ \E t \in Tasks :
          /\ ReserveForTask(1, t)
          /\ HeartbeatObserve("ReserveForTask", FALSE)
    \/ \E t \in Tasks, p \in PluginNames :
          /\ hist.requests < HeartbeatRequests
          /\ WorkerMessage(1, TaskMessage("0", t, p, hist.requests + 1))
          /\ HeartbeatObserve("request", FALSE)
    \/ /\ HeartbeatInterval(1)
       /\ HeartbeatObserve("HeartbeatInterval", FALSE)
    \/ /\ HeartbeatResponseReceived(1)
       /\ HeartbeatObserve("HeartbeatResponseReceived", FALSE)
    \/ \E spawned \in BOOLEAN :
          /\ HeartbeatTimeout(1, spawned)
          /\ HeartbeatObserve("HeartbeatTimeout", spawned)

SpecHeartbeat == InitHeartbeat /\ [][NextHeartbeat]_vars

\* The handler of the heartbeat timeout is the step just taken.
TimedOut == hist'.op = "HeartbeatTimeout"

\* C21 as stated: the heartbeat timeout leaves the controller in Starting with
\* a new worker process, and a Started message handled in Starting makes the
\* controller Ready.
C21_RecoversToStarting ==
    [][/\ TimedOut =>
            /\ controllers'[1].state = "Starting"
            /\ controllers'[1].out_spawned = 1
       /\ hist'.op = "Started" /\ controllers[1].state = "Starting" =>
            controllers'[1].state = "Ready"]_vars

\* C21: the handler of the heartbeat timeout kills the worker process the
\* controller holds and spawns one new process; the controller is then in
\* Starting when the spawn succeeded and in Error, without a worker process,
\* when it failed.  A Started message handled in Starting makes the
\* controller Ready.
C21_RecoversUnlessSpawnFails ==
    [][/\ TimedOut =>
            /\ controllers'[1].out_killed =
                   (IF controllers[1].worker_process THEN 1 ELSE 0)
            /\ hist'.spawned =>
                  /\ controllers'[1].state = "Starting"
                  /\ controllers'[1].worker_process
                  /\ controllers'[1].out_spawned = 1
            /\ ~hist'.spawned =>
                  /\ controllers'[1].state = "Error"
                  /\ ~controllers'[1].worker_process
                  /\ controllers'[1].out_spawned = 0
       /\ hist'.op = "Started" /\ controllers[1].state = "Starting" =>
            controllers'[1].state = "Ready"]_vars

\* The worker spawned by a recovery has sent Started and the controller is
\* Ready again.
C21_Witness ==
    /\ hist.op = "Started"
    /\ hist.before.state = "Starting"
    /\ controllers[1].state = "Ready"
    /\ controllers[1].worker_process
    /\ hist.recovered

(***************************************************************************)
(* worker/reprocessor.rs                                                   *)
(*                                                                         *)
(* A task is [uuid, worker_id]; worker_id "" is a task that any worker may *)
(* run.  tasks_linked_with_worker is a function whose domain is the set of *)
(* the keys of the HashMap.  out holds what the latest handler sent to the *)
(* task processor, in order.                                               *)
(***************************************************************************)
TaskReprocessor_default ==
    [tasks |-> <<>>,
     tasks_linked_with_worker |-> <<>>,
     out |-> <<>>]

BeginReprocessor(r) == [r EXCEPT !.out = <<>>]

reprocess_task(r, task) == [r EXCEPT !.out = Append(@, task)]

RECURSIVE reprocess_tasks(_, _)
reprocess_tasks(r, tasks) ==
    IF tasks = <<>> THEN r
    ELSE reprocess_tasks(reprocess_task(r, Head(tasks)), Tail(tasks))

\* HashMap::insert, HashMap::remove
MapInsert(map, key, value) ==
    [k \in DOMAIN map \cup {key} |-> IF k = key THEN value ELSE map[k]]

MapRemove(map, key) == [k \in DOMAIN map \ {key} |-> map[k]]

\* Vec::pop: the last element leaves.
Vec_pop(v) == SubSeq(v, 1, Len(v) - 1)

\* Handler<ReprocessTask>
handle_reprocess_task(r, task) ==
    IF task.worker_id = ""
    THEN [r EXCEPT !.tasks = Append(@, task)]
    ELSE IF task.worker_id \in DOMAIN r.tasks_linked_with_worker
         THEN [r EXCEPT !.tasks_linked_with_worker[task.worker_id] =
                            Append(@, task)]
         ELSE [r EXCEPT !.tasks_linked_with_worker =
                            MapInsert(@, task.worker_id, <<task>>)]

\* while let Some(task) = self.tasks.pop() { self.reprocess_task(task) }
RECURSIVE PopEach(_)
PopEach(r) ==
    IF r.tasks = <<>> THEN r
    ELSE PopEach(reprocess_task([r EXCEPT !.tasks = Vec_pop(@)],
                                r.tasks[Len(r.tasks)]))

\* A handler of WorkerReady that leaves the worker's list in the map.
handle_worker_ready_keeps_list(r, worker_id) ==
    IF worker_id \in DOMAIN r.tasks_linked_with_worker
    THEN reprocess_tasks(r, r.tasks_linked_with_worker[worker_id])
    ELSE PopEach(r)

\* Handler<WorkerReady>
handle_worker_ready(r, worker_id) ==
    IF worker_id \in DOMAIN r.tasks_linked_with_worker
    THEN reprocess_tasks(
             [r EXCEPT !.tasks_linked_with_worker = MapRemove(@, worker_id)],
             r.tasks_linked_with_worker[worker_id])
    ELSE PopEach(r)

ReprocessorStep(r) ==
    /\ reprocessor' = r
    /\ OnlyChanges("reprocessor")

ReprocessTask(task) ==
    ReprocessorStep(handle_reprocess_task(BeginReprocessor(reprocessor), task))

WorkerReady(worker_id) ==
    ReprocessorStep(handle_worker_ready(BeginReprocessor(reprocessor), worker_id))

(***************************************************************************)
(* SpecReprocessor: tasks are handed to the reprocessor and workers become *)
(* ready.  The tasks are numbered in the order in which the reprocessor    *)
(* receives them.  The observer records the latest step.                   *)
(***************************************************************************)
MaxReprocessed == 4

WorkerIds == {"0", "1"}

ReprocessorObserve(op, worker_id, uuid) ==
    hist' = [op |-> op, worker_id |-> worker_id,
             received |-> IF op = "ReprocessTask" THEN uuid ELSE hist.received]

InitReprocessor ==
    /\ env = [external_worker |-> FALSE, simple_protocol |-> FALSE]
    /\ controllers = <<>>
    /\ pool = NoPool
    /\ tree = NoTree
    /\ tracker = NoTracker
    /\ assistant = NoAssistant
    /\ reprocessor = TaskReprocessor_default
    /\ RestIdleBut("reprocessor")
    /\ hist = [op |-> "start", worker_id |-> "", received |-> 0]

NextReprocessor ==
    \/ \E w \in WorkerIds \cup {""} :
          LET uuid == hist.received + 1
          IN  /\ uuid <= MaxReprocessed
              /\ ReprocessTask([uuid |-> uuid, worker_id |-> w])
              /\ ReprocessorObserve("ReprocessTask", w, uuid)
    \/ \E w \in WorkerIds :
          /\ WorkerReady(w)
          /\ ReprocessorObserve("WorkerReady", w, NoTask)

SpecReprocessor == InitReprocessor /\ [][NextReprocessor]_vars

\* The same tasks, each as often, whatever the order (uuids are distinct).
SameTasks(s, t) == Range(s) = Range(t) /\ Len(s) = Len(t)

ListOf(r, w) ==
    IF w \in DOMAIN r.tasks_linked_with_worker
    THEN r.tasks_linked_with_worker[w] ELSE <<>>

\* C22: a ReprocessTask with an empty worker_id is appended to the FIFO and
\* one with a worker_id to the list of that worker, nothing else changing;
\* WorkerReady{w} sends exactly the tasks of the list of w when w has a list,
\* removes the list and leaves the FIFO as it is, and otherwise sends exactly
\* the tasks of the FIFO, empties it and leaves the lists as they are.
C22_ReprocessorFlush ==
    [][LET r == reprocessor
           r2 == reprocessor'
           w == hist'.worker_id
       IN  /\ hist'.op = "ReprocessTask" =>
                LET task == [uuid |-> hist'.received, worker_id |-> w]
                IN  /\ r2.out = <<>>
                    /\ w = "" =>
                          /\ r2.tasks = Append(r.tasks, task)
                          /\ r2.tasks_linked_with_worker =
                                 r.tasks_linked_with_worker
                    /\ w # "" =>
                          /\ r2.tasks = r.tasks
                          /\ ListOf(r2, w) = Append(ListOf(r, w), task)
                          /\ \A v \in WorkerIds \ {w} :
                                 ListOf(r2, v) = ListOf(r, v)
           /\ hist'.op = "WorkerReady" =>
                IF w \in DOMAIN r.tasks_linked_with_worker
                THEN /\ SameTasks(r2.out, r.tasks_linked_with_worker[w])
                     /\ w \notin DOMAIN r2.tasks_linked_with_worker
                     /\ \A v \in WorkerIds \ {w} : ListOf(r2, v) = ListOf(r, v)
                     /\ r2.tasks = r.tasks
                ELSE /\ SameTasks(r2.out, r.tasks)
                     /\ r2.tasks = <<>>
                     /\ r2.tasks_linked_with_worker =
                            r.tasks_linked_with_worker]_vars

\* A ready worker got its list while the FIFO holds tasks, which stay.
C22_Witness ==
    /\ hist.op = "WorkerReady"
    /\ Len(reprocessor.out) >= 2
    /\ \A k \in DOMAIN reprocessor.out :
           reprocessor.out[k].worker_id = hist.worker_id
    /\ reprocessor.tasks # <<>>
    /\ hist.worker_id \notin DOMAIN reprocessor.tasks_linked_with_worker

\* C23: the tasks of the FIFO are sent to the task processor in the order in
\* which the reprocessor received them.
C23_FifoOrder ==
    [][hist'.op = "WorkerReady" =>
          \A i, j \in DOMAIN reprocessor'.out :
              i < j => reprocessor'.out[i].uuid < reprocessor'.out[j].uuid]_vars

(***************************************************************************)
(* transport/router.rs, transport/connector.rs, transport/router_registry.rs *)
(*                                                                         *)
(* Two routers as the tests start them: the passive router binds its       *)
(* frontend (a ROUTER socket) and its backend; the active router connects  *)
(* its frontend (a DEALER socket) to the passive frontend and binds its    *)
(* backend.  Each backend has one connector (a DEALER socket).  Peer is a  *)
(* second client of the passive frontend.  A socket is named by the        *)
(* identity its peers see.  pipes[<<a, b>>] holds the messages socket a    *)
(* has sent to socket b and b has not received yet; a message is the       *)
(* sequence of its parts.                                                  *)
(***************************************************************************)
Routers == {"passive", "active"}

Connectors == {"backend_connector", "frontend_connector"}

Frontend(r) == IF r = "passive" THEN "router_fe" ELSE "router_fe_active"

Backend(r) == IF r = "passive" THEN "router_be" ELSE "router_be_active"

\* ConnectorParameters::router
router(connector) ==
    IF connector = "backend_connector" THEN "router_be" ELSE "router_be_active"

RouterOf(address) == IF address = "router_be" THEN "passive" ELSE "active"

\* The connected pairs of sockets, in the direction of the flow.
Links ==
    {<<"router_fe_active", "router_fe">>, <<"router_fe", "router_fe_active">>,
     <<"peer", "router_fe">>, <<"router_fe", "peer">>,
     <<"backend_connector", "router_be">>,
     <<"frontend_connector", "router_be_active">>}

\* The socket a DEALER socket is connected to.
Connected(dealer) ==
    CASE dealer = "router_fe_active" -> "router_fe"
      [] dealer = "peer" -> "router_fe"
      [] OTHER -> router(dealer)

PeersOf(socket) == {a \in {l[1] : l \in Links} : <<a, socket>> \in Links}

\* zmq DEALER send: the parts travel as they are.
dealer_send(t, socket, parts) ==
    [t EXCEPT !.pipes[<<socket, Connected(socket)>>] = Append(@, parts)]

\* zmq ROUTER send: the first part names the peer and is removed; a message
\* to an identity that is no peer is dropped.
router_send(t, socket, parts) ==
    IF <<socket, Head(parts)>> \in Links
    THEN [t EXCEPT !.pipes[<<socket, Head(parts)>>] = Append(@, Tail(parts))]
    ELSE t

\* zmq receive of the oldest message of a peer: a ROUTER socket puts the
\* peer's identity in front.
Received(t, socket, from, is_router) ==
    IF is_router THEN <<from>> \o Head(t.pipes[<<from, socket>>])
    ELSE Head(t.pipes[<<from, socket>>])

Taken(t, socket, from) == [t EXCEPT !.pipes[<<from, socket>>] = Tail(@)]

Readable(t, socket) ==
    \E from \in PeersOf(socket) : t.pipes[<<from, socket>>] # <<>>

\* RawMessage::new, RawMessage::with_body, RawMessage::dummy
RawMessage_new(identity, body) == [identity |-> identity, body |-> body]

RawMessage_with_body(body) == RawMessage_new("", body)

RawMessage_dummy == RawMessage_new("", "")

\* MessageRouter::new and the thread of start_internal, which is at poll,
\* between poll and the test of running (items holds what poll reported),
\* or gone.
MessageRouter_new(active_mode) ==
    [active_mode |-> active_mode,
     running |-> TRUE,
     at |-> "poll",
     items |-> [fe |-> FALSE, be |-> FALSE],
     \* the mailbox of the router's dispatcher
     dispatcher |-> <<>>]

Transport_new ==
    [pipes |-> [l \in Links |-> <<>>],
     routers |-> [r \in Routers |-> MessageRouter_new(r = "active")],
     \* the mailboxes of the connectors and the connectors that have started
     connectors |-> [c \in Connectors |-> <<>>],
     started |-> {},
     \* RouterRegistry: its mailbox and its two maps, keyed by backend address
     registry |-> [mailbox |-> <<>>, running_map |-> {}, connectors |-> {}],
     \* what the latest router step handed to its dispatcher and frontend
     out |-> <<>>,
     \* the tests' TEST_STR and the actix System
     test_str |-> "",
     system |-> "running"]

BeginTransport(t) == [t EXCEPT !.out = <<>>]

\* Handler<RawMessage> for Connector: two parts, identity and body.
connector_handle(t, connector) ==
    dealer_send([t EXCEPT !.connectors[connector] = Tail(@)],
                connector,
                <<Head(t.connectors[connector]).identity,
                  Head(t.connectors[connector]).body>>)

\* zmq::poll returns when a socket is readable.
poll(t, r) ==
    [t EXCEPT !.routers[r].at = "check",
              !.routers[r].items = [fe |-> Readable(t, Frontend(r)),
                                    be |-> Readable(t, Backend(r))]]

\* assert!(false): the thread of the router is gone.
Panicked(t, r) == [t EXCEPT !.routers[r].at = "panicked"]

\* A frontend section that hands every message on without an identity.
frontend_section_no_identity(t, r, from) ==
    LET active == t.routers[r].active_mode
        parts == Received(t, Frontend(r), from, ~active)
        t1 == Taken(t, Frontend(r), from)
        msg == RawMessage_new("", parts[Len(parts)])
    IN  [t1 EXCEPT !.routers[r].dispatcher = Append(@, msg),
                   !.out = Append(@, [to |-> "dispatcher", msg |-> msg])]

\* if items[0].is_readable(): the frontend section of the loop.
frontend_section(t, r, from) ==
    LET active == t.routers[r].active_mode
        parts == Received(t, Frontend(r), from, ~active)
        t1 == Taken(t, Frontend(r), from)
        identity == IF active THEN "" ELSE parts[1]
        body == IF active THEN parts[1] ELSE parts[2]
        msg == RawMessage_new(identity, body)
    IN  IF Len(parts) # (IF active THEN 1 ELSE 2)
        THEN Panicked(t1, r)
        ELSE [t1 EXCEPT !.routers[r].dispatcher = Append(@, msg),
                        !.out = Append(@, [to |-> "dispatcher", msg |-> msg])]

\* A backend section that sends every message to the first peer.
backend_section_first_peer(t, r, from) ==
    LET parts == Received(t, Backend(r), from, TRUE)
        t1 == Taken(t, Backend(r), from)
    IN  IF t.routers[r].active_mode
        THEN dealer_send(t1, Frontend(r), <<parts[3]>>)
        ELSE router_send(t1, Frontend(r), <<"peer", parts[3]>>)

\* if items[1].is_readable(): the backend section of the loop.
backend_section(t, r, from) ==
    LET parts == Received(t, Backend(r), from, TRUE)
        t1 == Taken(t, Backend(r), from)
        identity == parts[2]
        body == parts[3]
        sent == [t1 EXCEPT !.out = Append(@, [to |-> "frontend",
                              msg |-> RawMessage_new(identity, body)])]
    IN  IF Len(parts) # 3
        THEN Panicked(t1, r)
        ELSE IF t.routers[r].active_mode
             THEN dealer_send(sent, Frontend(r), <<body>>)
             ELSE router_send(sent, Frontend(r), <<identity, body>>)

\* An iteration that forwards what poll reported before it tests running.
iteration_forwards_first(t, r, fe, be) ==
    LET t0 == [t EXCEPT !.routers[r].at = "poll"]
        t1 == IF t.routers[r].items.fe THEN frontend_section(t0, r, fe) ELSE t0
        t2 == IF t1.routers[r].at = "panicked" \/ ~t.routers[r].items.be
              THEN t1 ELSE backend_section(t1, r, be)
    IN  IF ~t.routers[r].running
        THEN [t2 EXCEPT !.routers[r].at = "exited"]
        ELSE t2

\* One pass of the loop after poll: the test of running, then the sections
\* of the sockets poll reported; fe and be are the peers whose messages the
\* two sockets deliver.
iteration(t, r, fe, be) ==
    LET t0 == [t EXCEPT !.routers[r].at = "poll"]
        t1 == IF t.routers[r].items.fe THEN frontend_section(t0, r, fe) ELSE t0
        t2 == IF t1.routers[r].at = "panicked" \/ ~t.routers[r].items.be
              THEN t1 ELSE backend_section(t1, r, be)
    IN  IF ~t.routers[r].running
        THEN [t EXCEPT !.routers[r].at = "exited"]
        ELSE t2

\* Handler<RegisterRouterControlLinkMessage>
registry_register(t, msg) ==
    IF msg.control_link = "Running"
    THEN [t EXCEPT !.registry.running_map = @ \cup {msg.address}]
    ELSE [t EXCEPT !.registry.connectors = @ \cup {msg.address}]

ConnectorOf(address) ==
    IF address = "router_be" THEN "backend_connector" ELSE "frontend_connector"

\* A handler of StopRouterMessage that clears the flag and wakes nobody.
registry_stop_router_silent(t, msg) ==
    IF msg.address \in t.registry.running_map
    THEN [t EXCEPT !.routers[RouterOf(msg.address)].running = FALSE]
    ELSE t

\* Handler<StopRouterMessage>
registry_stop_router(t, msg) ==
    LET t1 == IF msg.address \in t.registry.running_map
              THEN [t EXCEPT !.routers[RouterOf(msg.address)].running = FALSE]
              ELSE t
    IN  IF msg.address \in t.registry.connectors
        THEN [t1 EXCEPT !.connectors[ConnectorOf(msg.address)] =
                            Append(@, RawMessage_dummy)]
        ELSE t1

registry_handle(t) ==
    LET msg == Head(t.registry.mailbox)
        t1 == [t EXCEPT !.registry.mailbox = Tail(@)]
    IN  IF msg.type = "Register" THEN registry_register(t1, msg)
        ELSE registry_stop_router(t1, msg)

RegisterRouterControlLinkMessage(address, control_link) ==
    [type |-> "Register", address |-> address, control_link |-> control_link]

StopRouterMessage(address) ==
    [type |-> "Stop", address |-> address, control_link |-> "None"]

(***************************************************************************)
(* The steps of the transport.                                             *)
(***************************************************************************)
TransportStep(t) ==
    /\ transport' = t
    /\ OnlyChanges("transport")

\* An actor hands a RawMessage to a connector.
ToConnector(t, connector, msg) ==
    [t EXCEPT !.connectors[connector] = Append(@, msg)]

\* Actor::started of Connector: it registers itself for its router.
Connector_started(t, connector) ==
    [t EXCEPT !.started = @ \cup {connector},
              !.registry.mailbox =
                  Append(@, RegisterRouterControlLinkMessage(router(connector),
                                                            "Connector"))]

ConnectorStarts(connector) ==
    /\ connector \notin transport.started
    /\ TransportStep(Connector_started(BeginTransport(transport), connector))

ConnectorHandles(connector) ==
    /\ transport.system # "stopped"
    /\ connector \in transport.started
    /\ transport.connectors[connector] # <<>>
    /\ TransportStep(connector_handle(BeginTransport(transport), connector))

RouterPolls(r) ==
    /\ transport.routers[r].at = "poll"
    /\ Readable(transport, Frontend(r)) \/ Readable(transport, Backend(r))
    /\ TransportStep(poll(BeginTransport(transport), r))

\* The peers whose oldest message a socket may deliver next.
Ready(socket) ==
    IF Readable(transport, socket)
    THEN {from \in PeersOf(socket) : transport.pipes[<<from, socket>>] # <<>>}
    ELSE {"none"}

RouterIterates(r) ==
    /\ transport.routers[r].at = "check"
    /\ \E fe \in Ready(Frontend(r)), be \in Ready(Backend(r)) :
          TransportStep(iteration(BeginTransport(transport), r, fe, be))

RegistryHandles ==
    /\ transport.system # "stopped"
    /\ transport.registry.mailbox # <<>>
    /\ TransportStep(registry_handle(BeginTransport(transport)))

(***************************************************************************)
(* tests/test_connector_router.rs: the dispatchers of the two routers.     *)
(***************************************************************************)
\* Handler<RawMessage> for DispatcherA, the dispatcher of the passive router.
DispatcherA_handle(t, msg) ==
    LET t1 == IF msg.body = "pingpongping"
              THEN [t EXCEPT !.test_str = @ \o msg.body] ELSE t
    IN  IF msg.body = "stop" \/ msg.body = "pingpongping"
        THEN [t1 EXCEPT !.registry.mailbox =
                            @ \o <<StopRouterMessage("router_be"),
                                   StopRouterMessage("router_be_active")>>,
                        !.system = "stopping"]
        ELSE IF msg.body = "ping"
             THEN ToConnector(t1, "backend_connector",
                              RawMessage_new(msg.identity, msg.body \o "pong"))
             ELSE [t1 EXCEPT !.test_str = @ \o msg.body]

\* Handler<RawMessage> for DispatcherB, the dispatcher of the active router.
DispatcherB_handle(t, msg) ==
    ToConnector(t, "frontend_connector", RawMessage_with_body(msg.body \o "ping"))

dispatcher_handle(t, r) ==
    LET msg == Head(t.routers[r].dispatcher)
        t1 == [t EXCEPT !.routers[r].dispatcher = Tail(@)]
    IN  IF r = "passive" THEN DispatcherA_handle(t1, msg)
        ELSE DispatcherB_handle(t1, msg)

\* The actors run until the System has stopped.
ActorsRun == transport.system # "stopped"

DispatcherHandles(r) ==
    /\ ActorsRun
    /\ transport.routers[r].dispatcher # <<>>
    /\ TransportStep(dispatcher_handle(BeginTransport(transport), r))

\* System::current().stop() takes effect.
SystemStops ==
    /\ transport.system = "stopping"
    /\ TransportStep([BeginTransport(transport) EXCEPT !.system = "stopped"])

\* The second client of the passive frontend sends a body.
PeerSends(body) ==
    TransportStep(dealer_send(BeginTransport(transport), "peer", <<body>>))

(***************************************************************************)
(* SpecRouter: test_frontend and test_full.  The frontend connector starts *)
(* with the bodies the test has sent it; the second client sends ping.     *)
(* The observer records                                                    *)
(*   via_fc   the bodies the frontend connector has put on its socket      *)
(*   at_a     the bodies DispatcherA got from the active router's socket   *)
(*   pings    the pings the second client has sent                         *)
(***************************************************************************)
MaxPeerFrames == 2

Scripts ==
    {<<"aaa", "bbb", "ccc", "stop">>, <<"ping">>}

Bodies(msgs) == [k \in DOMAIN msgs |-> msgs[k].body]

FromActive(out) ==
    SelectSeq(out, LAMBDA o : o.to = "dispatcher"
                              /\ o.msg.identity = "router_fe_active")

RouterObserve(op, r) ==
    hist' = [hist EXCEPT
        !.op = op,
        !.router = r,
        !.via_fc = IF op = "connector" /\ r = "frontend_connector"
                   THEN Append(@, Head(transport.connectors[r]).body) ELSE @,
        !.at_a = IF op = "iterate" /\ r = "passive"
                 THEN @ \o Bodies([k \in DOMAIN FromActive(transport'.out) |->
                                      FromActive(transport'.out)[k].msg])
                 ELSE @,
        !.pings = IF op = "peer" THEN @ + 1 ELSE @]

Registered ==
    [mailbox |-> <<>>,
     running_map |-> {"router_be", "router_be_active"},
     connectors |-> {"router_be", "router_be_active"}]

InitRouter ==
    /\ env = [external_worker |-> FALSE, simple_protocol |-> FALSE]
    /\ controllers = <<>>
    /\ pool = NoPool
    /\ tree = NoTree
    /\ tracker = NoTracker
    /\ assistant = NoAssistant
    /\ RestIdleBut("transport")
    /\ \E script \in Scripts :
          /\ transport =
                 [Transport_new EXCEPT
                     !.registry = Registered,
                     !.started = Connectors,
                     !.connectors["frontend_connector"] =
                         [k \in DOMAIN script |-> RawMessage_with_body(script[k])]]
          /\ hist = [op |-> "start", router |-> "none", script |-> script,
                     via_fc |-> <<>>, at_a |-> <<>>, pings |-> 0]

NextRouter ==
    \/ \E c \in Connectors :
          /\ ConnectorHandles(c)
          /\ RouterObserve("connector", c)
    \/ \E r \in Routers :
          /\ RouterPolls(r)
          /\ RouterObserve("poll", r)
    \/ \E r \in Routers :
          /\ RouterIterates(r)
          /\ RouterObserve("iterate", r)
    \/ \E r \in Routers :
          /\ DispatcherHandles(r)
          /\ RouterObserve("dispatcher", r)
    \/ /\ RegistryHandles
       /\ RouterObserve("registry", "none")
    \/ /\ SystemStops
       /\ RouterObserve("system", "none")
    \/ /\ hist.pings < MaxPeerFrames
       /\ PeerSends("ping")
       /\ RouterObserve("peer", "none")

SpecRouter == InitRouter /\ [][NextRouter]_vars

Last(seq) == seq[Len(seq)]

ToDispatcher(out) == SelectSeq(out, LAMBDA o : o.to = "dispatcher")

InboundUnchanged(socket, except) ==
    \A from \in PeersOf(socket) \ except :
        transport'.pipes[<<from, socket>>] = transport.pipes[<<from, socket>>]

\* A step of router r's loop hands the oldest message of one frontend peer to
\* the dispatcher, once, with the body it was sent with and the identity of
\* the peer (passive) or the empty identity (active); a step that exits or
\* that found the frontend unreadable hands over nothing.
HandsOverOnce(r) ==
    LET R == transport.routers[r]
        fe == Frontend(r)
        handed == ToDispatcher(transport'.out)
    IN  IF R.running /\ R.items.fe
        THEN \E from \in PeersOf(fe) :
                LET pipe == transport.pipes[<<from, fe>>]
                    msg == RawMessage_new(IF R.active_mode THEN "" ELSE from,
                                          Last(Head(pipe)))
                IN  /\ pipe # <<>>
                    /\ transport'.pipes[<<from, fe>>] = Tail(pipe)
                    /\ InboundUnchanged(fe, {from})
                    /\ handed = <<[to |-> "dispatcher", msg |-> msg]>>
                    /\ transport'.routers[r].dispatcher =
                           Append(R.dispatcher, msg)
        ELSE /\ handed = <<>>
             /\ transport'.routers[r].dispatcher = R.dispatcher
             /\ InboundUnchanged(fe, {})

\* While both routers run and nothing is under way between the frontend
\* connector and DispatcherA, everything the connector sent has arrived.
Settled ==
    /\ \A r \in Routers : transport.routers[r].running
                          /\ transport.routers[r].at = "poll"
    /\ transport.pipes[<<"frontend_connector", "router_be_active">>] = <<>>
    /\ transport.pipes[<<"router_fe_active", "router_fe">>] = <<>>

\* C24: every message a peer sent to a router's frontend is handed to that
\* router's dispatcher once, body unchanged, with the peer's identity by the
\* passive router and the empty identity by the active router; what
\* DispatcherA gets from the frontend connector arrives in the order the
\* connector sent it, all of it once the path is idle; the bodies aaa, bbb,
\* ccc, stop accumulate to aaabbbccc.
C24_RouterSymmetryAndOrder ==
    /\ [][\A r \in Routers :
              hist'.op = "iterate" /\ hist'.router = r => HandsOverOnce(r)]_vars
    /\ [](/\ IsPrefix(hist.at_a, hist.via_fc)
          /\ Settled => hist.at_a = hist.via_fc
          /\ hist.script # <<"ping">> =>
                /\ transport.test_str \in {"", "aaa", "aaabbb", "aaabbbccc"}
                /\ transport.system # "running" =>
                       transport.test_str = "aaabbbccc")

\* test_frontend has run to its end: DispatcherA holds aaabbbccc and has got
\* the four bodies in the order they were sent.
C24_Witness ==
    /\ hist.script # <<"ping">>
    /\ transport.system = "stopped"
    /\ transport.test_str = "aaabbbccc"
    /\ hist.at_a = <<"aaa", "bbb", "ccc", "stop">>

\* The backend section of the passive router's step sends the message to the
\* peer its identity names, and to no other peer.
RepliesToSender ==
    LET R == transport.routers["passive"]
        pipe == transport.pipes[<<"backend_connector", "router_be">>]
        identity == Head(pipe)[1]
        body == Head(pipe)[2]
    IN  IF R.running /\ R.items.be /\ transport'.routers["passive"].at = "poll"
        THEN \A peer \in PeersOf("router_fe") :
                transport'.pipes[<<"router_fe", peer>>] =
                    IF peer = identity
                    THEN Append(transport.pipes[<<"router_fe", peer>>], <<body>>)
                    ELSE transport.pipes[<<"router_fe", peer>>]
        ELSE \A peer \in PeersOf("router_fe") :
                transport'.pipes[<<"router_fe", peer>>] =
                    transport.pipes[<<"router_fe", peer>>]

\* C25: a message DispatcherA sends through the backend connector with the
\* identity of a message it received reaches the peer that sent that message
\* and no other peer: the second client gets one pingpong for each ping it
\* sent and nothing else, and in test_full DispatcherA ends with exactly
\* pingpongping.
C25_ReplyRouting ==
    /\ [][hist'.op = "iterate" /\ hist'.router = "passive" =>
              RepliesToSender]_vars
    /\ [](/\ Len(transport.pipes[<<"router_fe", "peer">>]) <= hist.pings
          /\ \A k \in DOMAIN transport.pipes[<<"router_fe", "peer">>] :
                 transport.pipes[<<"router_fe", "peer">>][k] = <<"pingpong">>
          /\ hist.script = <<"ping">> =>
                /\ transport.test_str \in {"", "pingpongping"}
                /\ transport.system # "running" =>
                       transport.test_str = "pingpongping")

\* test_full has run to its end while the second client got its own reply.
C25_Witness ==
    /\ hist.script = <<"ping">>
    /\ transport.test_str = "pingpongping"
    /\ transport.system = "stopped"
    /\ hist.pings = 1
    /\ transport.pipes[<<"router_fe", "peer">>] = <<<<"pingpong">>>>

(***************************************************************************)
(* SpecShutdown: the routers have been started (MessageRouter::start has   *)
(* sent their running flags to the registry), the connectors start, the    *)
(* frontend connector and the second client send bodies, and               *)
(* StopRouterMessage reaches the registry at any time.  A connector and a  *)
(* router thread that can take a step take it in the end.  The observer    *)
(* records                                                                 *)
(*   sent      the number of bodies and of stop requests sent so far       *)
(*   stopping  the backend addresses for which the registry has handled a  *)
(*             StopRouterMessage with flag and connector registered        *)
(***************************************************************************)
MaxShutdownFrames == 1

MaxStops == 2

Addresses == {"router_be", "router_be_active"}

ShutdownObserve(op, r) ==
    hist' = [op |-> op,
             router |-> r,
             sent |-> IF op = "send" THEN hist.sent + 1 ELSE hist.sent,
             stops |-> IF op = "stop" THEN hist.stops + 1 ELSE hist.stops,
             stopping |->
                IF op = "registry"
                   /\ Head(transport.registry.mailbox).type = "Stop"
                   /\ Head(transport.registry.mailbox).address
                          \in transport.registry.running_map
                              \cap transport.registry.connectors
                THEN hist.stopping \cup {Head(transport.registry.mailbox).address}
                ELSE hist.stopping]

InitShutdown ==
    /\ env = [external_worker |-> FALSE, simple_protocol |-> FALSE]
    /\ controllers = <<>>
    /\ pool = NoPool
    /\ tree = NoTree
    /\ tracker = NoTracker
    /\ assistant = NoAssistant
    /\ RestIdleBut("transport")
    /\ transport =
           [Transport_new EXCEPT
               !.registry.mailbox =
                   <<RegisterRouterControlLinkMessage("router_be", "Running"),
                     RegisterRouterControlLinkMessage("router_be_active",
                                                      "Running")>>]
    /\ hist = [op |-> "start", router |-> "none", sent |-> 0, stops |-> 0,
               stopping |-> {}]

NextShutdown ==
    \/ \E c \in Connectors :
          /\ ConnectorStarts(c)
          /\ ShutdownObserve("started", c)
    \/ \E c \in Connectors :
          /\ ConnectorHandles(c)
          /\ ShutdownObserve("connector", c)
    \/ \E r \in Routers :
          /\ RouterPolls(r)
          /\ ShutdownObserve("poll", r)
    \/ \E r \in Routers :
          /\ RouterIterates(r)
          /\ ShutdownObserve("iterate", r)
    \/ \E r \in Routers :
          /\ DispatcherHandles(r)
          /\ ShutdownObserve("dispatcher", r)
    \/ /\ RegistryHandles
       /\ ShutdownObserve("registry", "none")
    \/ /\ hist.sent < MaxShutdownFrames
       /\ \/ PeerSends("ping")
          \/ TransportStep(ToConnector(BeginTransport(transport),
                                       "frontend_connector",
                                       RawMessage_with_body("aaa")))
       /\ ShutdownObserve("send", "none")
    \/ \E address \in Addresses :
          /\ hist.stops < MaxStops
          /\ TransportStep([BeginTransport(transport) EXCEPT
                               !.registry.mailbox =
                                   Append(@, StopRouterMessage(address))])
          /\ ShutdownObserve("stop", "none")

SpecShutdown ==
    /\ InitShutdown
    /\ [][NextShutdown]_vars
    /\ \A c \in Connectors : WF_vars(ConnectorHandles(c) /\ NextShutdown)
    /\ \A r \in Routers : WF_vars(RouterPolls(r) /\ NextShutdown)
    /\ \A r \in Routers : WF_vars(RouterIterates(r) /\ NextShutdown)

\* Everything a router's step can hand on is as it was.
ForwardsNothing(r) ==
    /\ transport'.out = <<>>
    /\ transport'.routers[r].dispatcher = transport.routers[r].dispatcher
    /\ transport'.pipes = transport.pipes

TimerNames == {"interval_timer", "timeout_timer"}

MessageOf(which) ==
    IF which = "interval_timer" THEN "IntervalMessage" ELSE "TimeoutMessage"

Timer_new == [handle |-> <<>>, duration |-> <<>>]

\* ctx.notify_later(message, duration); the handle it returns is a.handles
\* of the result.
notify_later(a, message, duration) ==
    [a EXCEPT !.handles = @ + 1,
              !.spawned = @ \cup {[handle |-> a.handles + 1,
                                   message |-> message,
                                   due |-> a.now + duration]}]

cancel_future(a, handle) ==
    [a EXCEPT !.spawned = {p \in @ : p.handle # handle}]

Timer_cancel(a, which) ==
    IF a[which].handle # <<>>
    THEN [cancel_future(a, a[which].handle[1]) EXCEPT ![which].handle = <<>>]
    ELSE a

\* A start that leaves the pending firing in place.
Timer_start_no_cancel(a, which, duration) ==
    LET a2 == notify_later(a, MessageOf(which), duration)
    IN  [a2 EXCEPT ![which].duration = <<duration>>,
                   ![which].handle = <<a2.handles>>]

Timer_start(a, which, duration) ==
    LET a1 == Timer_cancel(a, which)
        a2 == notify_later(a1, MessageOf(which), duration)
    IN  [a2 EXCEPT ![which].duration = <<duration>>,
                   ![which].handle = <<a2.handles>>]

Timer_reset(a, which) ==
    IF a[which].duration # <<>>
    THEN Timer_start(a, which, a[which].duration[1])
    ELSE a

TimeoutActor_new(interval_timer_duration, timeout_timer_duration,
                 life_duration) ==
    [now |-> 0,
     system |-> "running",
     started |-> FALSE,
     interval_timer |-> Timer_new,
     interval_timer_duration |-> interval_timer_duration,
     interval_messages_rx |-> 0,
     timeout_timer |-> Timer_new,
     timeout_timer_duration |-> timeout_timer_duration,
     timeout_messages_rx |-> 0,
     life_duration |-> life_duration,
     spawned |-> {},
     handles |-> 0]

\* Actor::started
TimeoutActor_started(a) ==
    notify_later(
        Timer_start(
            Timer_start([a EXCEPT !.started = TRUE],
                        "interval_timer", a.interval_timer_duration),
            "timeout_timer", a.timeout_timer_duration),
        "StopMessage", a.life_duration)

\* Handler<IntervalMessage>
handle_interval_message(a) ==
    Timer_reset(
        Timer_reset([a EXCEPT !.interval_messages_rx = @ + 1],
                    "interval_timer"),
        "timeout_timer")

\* Handler<TimeoutMessage>
handle_timeout_message(a) == [a EXCEPT !.timeout_messages_rx = @ + 1]

\* Handler<StopMessage>: System::current().stop()
handle_stop_message(a) == [a EXCEPT !.system = "stopped"]

\* The future completes and the actor handles its message.
fire(a, p) ==
    LET a1 == [a EXCEPT !.spawned = @ \ {p}]
    IN  CASE p.message = "IntervalMessage" -> handle_interval_message(a1)
          [] p.message = "TimeoutMessage" -> handle_timeout_message(a1)
          [] OTHER -> handle_stop_message(a1)

TimerStep(a) ==
    /\ timeout_actor' = a
    /\ OnlyChanges("timeout_actor")

ActorStarts ==
    /\ ~timeout_actor.started
    /\ TimerStep(TimeoutActor_started(timeout_actor))

Alive == timeout_actor.started /\ timeout_actor.system = "running"

Fires(p) ==
    /\ Alive
    /\ p \in timeout_actor.spawned
    /\ p.due <= timeout_actor.now
    /\ TimerStep(fire(timeout_actor, p))

\* Time passes when nothing is due.
TimePasses ==
    /\ Alive
    /\ timeout_actor.spawned # {}
    /\ \A p \in timeout_actor.spawned : p.due > timeout_actor.now
    /\ TimerStep([timeout_actor EXCEPT !.now = @ + 1])

\* A handler of the actor calls start, reset or cancel of a timer.
Starts(which, duration) ==
    /\ Alive
    /\ TimerStep(Timer_start(timeout_actor, which, duration))

Resets(which) ==
    /\ Alive
    /\ TimerStep(Timer_reset(timeout_actor, which))

Cancels(which) ==
    /\ Alive
    /\ TimerStep(Timer_cancel(timeout_actor, which))

(***************************************************************************)
(* SpecTimer: the actor of test_interval_timer (500 ms, 2 s, life 3200 ms) *)
(* and of test_timeout_timer (2 s, 1 s, life 1200 ms), and an actor with   *)
(* short durations whose timers are also started, reset and cancelled at   *)
(* any time.  The observer records, from the calls it sees,                *)
(*   armed   per timer, the time of the latest start or reset that no      *)
(*           firing and no cancel has followed                             *)
(*   dur     per timer, the duration of that start or reset                *)
(*   calls   the number of calls made from outside the two handlers        *)
(***************************************************************************)
MaxTimerCalls == 2

CallDurations == {1, 3}

TestInterval == [interval |-> 5, timeout |-> 20, life |-> 32, calls |-> FALSE]

TestTimeout == [interval |-> 20, timeout |-> 10, life |-> 12, calls |-> FALSE]

Called == [interval |-> 2, timeout |-> 3, life |-> 5, calls |-> TRUE]

TimerObserve(op, which, duration) ==
    LET now == timeout_actor.now
        both == [w \in TimerNames |-> <<now>>]
    IN  hist' = [hist EXCEPT
            !.op = op,
            !.which = which,
            !.calls = IF op \in {"start", "reset", "cancel"} THEN @ + 1 ELSE @,
            !.armed = CASE op = "started" -> both
                        [] op = "fire" /\ which = "IntervalMessage" -> both
                        [] op = "fire" /\ which = "TimeoutMessage" ->
                               [@ EXCEPT !["timeout_timer"] = <<>>]
                        [] op \in {"start", "reset"} ->
                               [@ EXCEPT ![which] = <<now>>]
                        [] op = "cancel" -> [@ EXCEPT ![which] = <<>>]
                        [] OTHER -> @,
            !.dur = IF op = "start" THEN [@ EXCEPT ![which] = duration] ELSE @]

InitTimer ==
    /\ env = [external_worker |-> FALSE, simple_protocol |-> FALSE]
    /\ controllers = <<>>
    /\ pool = NoPool
    /\ tree = NoTree
    /\ tracker = NoTracker
    /\ assistant = NoAssistant
    /\ RestIdleBut("timeout_actor")
    /\ \E test \in {TestInterval, TestTimeout, Called} :
          /\ timeout_actor =
                 TimeoutActor_new(test.interval, test.timeout, test.life)
          /\ hist = [op |-> "new", which |-> "none", test |-> test, calls |-> 0,
                     armed |-> [w \in TimerNames |-> <<>>],
                     dur |-> [interval_timer |-> test.interval,
                              timeout_timer |-> test.timeout]]

CallsLeft == hist.test.calls /\ hist.calls < MaxTimerCalls

NextTimer ==
    \/ /\ ActorStarts
       /\ TimerObserve("started", "none", 0)
    \/ \E p \in timeout_actor.spawned :
          /\ Fires(p)
          /\ TimerObserve("fire", p.message, 0)
    \/ /\ TimePasses
       /\ TimerObserve("time", "none", 0)
    \/ \E which \in TimerNames, duration \in CallDurations :
          /\ CallsLeft
          /\ Starts(which, duration)
          /\ TimerObserve("start", which, duration)
    \/ \E which \in TimerNames :
          /\ CallsLeft
          /\ Resets(which)
          /\ TimerObserve("reset", which, 0)
    \/ \E which \in TimerNames :
          /\ CallsLeft
          /\ Cancels(which)
          /\ TimerObserve("cancel", which, 0)

SpecTimer == InitTimer /\ [][NextTimer]_vars

PendingOf(which) ==
    {p \in timeout_actor.spawned : p.message = MessageOf(which)}

\* C26: a timer that was started or reset and neither cancelled nor fired
\* since has exactly one pending firing, due one duration after that start or
\* reset, and time does not pass that moment without the firing; a timer that
\* was cancelled or has fired has no pending firing; a firing delivers the
\* message once.  test_interval_timer ends with 6 interval messages and no
\* timeout message, test_timeout_timer with no interval message and one
\* timeout message.
C26_TimerSemantics ==
    /\ [](\A which \in TimerNames :
             IF hist.armed[which] = <<>>
             THEN PendingOf(which) = {}
             ELSE /\ Cardinality(PendingOf(which)) = 1
                  /\ \A p \in PendingOf(which) :
                        /\ p.due = hist.armed[which][1] + hist.dur[which]
                        /\ timeout_actor.now <= p.due)
    /\ [](timeout_actor.system = "stopped" =>
             /\ hist.test = TestInterval =>
                   /\ timeout_actor.interval_messages_rx = 6
                   /\ timeout_actor.timeout_messages_rx = 0
             /\ hist.test = TestTimeout =>
                   /\ timeout_actor.interval_messages_rx = 0
                   /\ timeout_actor.timeout_messages_rx = 1)
    /\ [][hist'.op = "fire" =>
             /\ timeout_actor'.interval_messages_rx =
                    timeout_actor.interval_messages_rx
                        + (IF hist'.which = "IntervalMessage" THEN 1 ELSE 0)
             /\ timeout_actor'.timeout_messages_rx =
                    timeout_actor.timeout_messages_rx
                        + (IF hist'.which = "TimeoutMessage" THEN 1 ELSE 0)]_vars

\* test_interval_timer has run to its stop with six interval messages.
C26_Witness ==
    /\ hist.test = TestInterval
    /\ timeout_actor.system = "stopped"
    /\ timeout_actor.now = 32
    /\ timeout_actor.interval_messages_rx = 6

(***************************************************************************)
(* worker/link.rs: define_link!                                            *)
(*                                                                         *)
(* recipients and delayed are the two RwLock-ed maps; readers and writer   *)
(* are the holders of the lock of recipients, delayed_writer the holder of *)
(* the write lock of delayed.  Each thread is idle or inside one call, at  *)
(* the place pc names, with the call's arguments in arg.  mailbox[uuid] is *)
(* what the recipient registered for uuid has been sent, in order.         *)
(***************************************************************************)
Senders == {"sender_1", "sender_2"}

Registrar == "registrar"

LinkUuids == {1, 2}

NoArg == [uuid |-> 0, msg |-> <<>>]

Link_new ==
    [recipients |-> {},
     delayed |-> <<>>,
     readers |-> {},
     writer |-> "none",
     delayed_writer |-> "none",
     pc |-> [t \in Senders \cup {Registrar} |-> "idle"],
     arg |-> [t \in Senders \cup {Registrar} |-> NoArg],
     mailbox |-> [u \in LinkUuids |-> <<>>]]

do_send(l, uuid, msg) == [l EXCEPT !.mailbox[uuid] = Append(@, msg)]

Returns(l, t) == [l EXCEPT !.pc[t] = "idle", !.arg[t] = NoArg]

\* send_when_ready: let recipients = $name.read().unwrap()
send_when_ready_read(l, t, uuid, msg) ==
    [l EXCEPT !.readers = @ \cup {t},
              !.pc[t] = "get",
              !.arg[t] = [uuid |-> uuid, msg |-> msg]]

\* A send_when_ready that gives the lock of recipients back before it turns
\* to the delayed messages.
send_when_ready_get_unlocked(l, t) ==
    IF l.arg[t].uuid \in l.recipients
    THEN Returns([do_send(l, l.arg[t].uuid, l.arg[t].msg) EXCEPT
                     !.readers = @ \ {t}], t)
    ELSE [l EXCEPT !.pc[t] = "delayed", !.readers = @ \ {t}]

\* send_when_ready: recipients.get(uuid), and do_send to the recipient found
send_when_ready_get(l, t) ==
    IF l.arg[t].uuid \in l.recipients
    THEN Returns([do_send(l, l.arg[t].uuid, l.arg[t].msg) EXCEPT
                     !.readers = @ \ {t}], t)
    ELSE [l EXCEPT !.pc[t] = "delayed"]

\* send_when_ready: let mut delayed = $name_delayed.write().unwrap()
send_when_ready_write(l, t) ==
    [l EXCEPT !.delayed_writer = t, !.pc[t] = "push"]

\* send_when_ready: the message joins the messages held for uuid; both locks
\* are given back.
send_when_ready_push(l, t) ==
    LET uuid == l.arg[t].uuid
        held == IF uuid \in DOMAIN l.delayed
                THEN [l EXCEPT !.delayed[uuid] = Append(@, l.arg[t].msg)]
                ELSE [l EXCEPT !.delayed = MapInsert(@, uuid, <<l.arg[t].msg>>)]
    IN  Returns([held EXCEPT !.delayed_writer = "none", !.readers = @ \ {t}], t)

\* register_recipient: the write lock of recipients and the insert
register_recipient_insert(l, t, uuid) ==
    [l EXCEPT !.writer = t,
              !.recipients = @ \cup {uuid},
              !.pc[t] = "send_delayed",
              !.arg[t] = [uuid |-> uuid, msg |-> <<>>]]

\* send_delayed: let mut delayed = $name_delayed.write().unwrap()
send_delayed_write(l, t) ==
    [l EXCEPT !.delayed_writer = t, !.pc[t] = "drain"]

RECURSIVE do_send_all(_, _, _)
do_send_all(l, uuid, msgs) ==
    IF msgs = <<>> THEN l
    ELSE do_send_all(do_send(l, uuid, Head(msgs)), uuid, Tail(msgs))

\* send_delayed: the messages held for uuid leave the map and are sent; both
\* locks are given back.
send_delayed_drain(l, t) ==
    LET uuid == l.arg[t].uuid
        sent == IF uuid \in DOMAIN l.delayed
                THEN do_send_all([l EXCEPT !.delayed = MapRemove(@, uuid)],
                                 uuid, l.delayed[uuid])
                ELSE l
    IN  Returns([sent EXCEPT !.delayed_writer = "none", !.writer = "none"], t)

unregister_recipient(l, uuid) == [l EXCEPT !.recipients = @ \ {uuid}]

ReadLockFree(l) == l.writer = "none"

WriteLockFree(l) == l.writer = "none" /\ l.readers = {}

LinkStep(l) ==
    /\ link' = l
    /\ OnlyChanges("link")

SendWhenReady(t, uuid, msg) ==
    /\ link.pc[t] = "idle"
    /\ ReadLockFree(link)
    /\ LinkStep(send_when_ready_read(link, t, uuid, msg))

SendGets(t) ==
    /\ link.pc[t] = "get"
    /\ LinkStep(send_when_ready_get(link, t))

SendLocksDelayed(t) ==
    /\ link.pc[t] = "delayed"
    /\ link.delayed_writer = "none"
    /\ LinkStep(send_when_ready_write(link, t))

SendPushes(t) ==
    /\ link.pc[t] = "push"
    /\ LinkStep(send_when_ready_push(link, t))

RegisterRecipient(uuid) ==
    /\ link.pc[Registrar] = "idle"
    /\ WriteLockFree(link)
    /\ LinkStep(register_recipient_insert(link, Registrar, uuid))

RegisterLocksDelayed ==
    /\ link.pc[Registrar] = "send_delayed"
    /\ link.delayed_writer = "none"
    /\ LinkStep(send_delayed_write(link, Registrar))

RegisterDrains ==
    /\ link.pc[Registrar] = "drain"
    /\ LinkStep(send_delayed_drain(link, Registrar))

UnregisterRecipient(uuid) ==
    /\ link.pc[Registrar] = "idle"
    /\ WriteLockFree(link)
    /\ LinkStep(unregister_recipient(link, uuid))

(***************************************************************************)
(* SpecLink: two sending threads and a registering thread.  A message is   *)
(* <<sender, n>>, the n-th message of its sender.  The observer records    *)
(*   sent       per sender, the uuids of its calls of send_when_ready      *)
(*   registers  the number of register and unregister calls                *)
(*   log        per uuid, the messages whose send_when_ready has returned, *)
(*              in the order of the returns                                *)
(*   drained    per uuid, the number of messages send_delayed has sent     *)
(***************************************************************************)
MaxLinkSends == 2

MaxRegisters == 2

LinkObserve(op, t, uuid) ==
    hist' = [op |-> op,
             thread |-> t,
             sent |-> IF op = "send"
                      THEN [hist.sent EXCEPT ![t] = Append(@, uuid)]
                      ELSE hist.sent,
             registers |-> IF op \in {"register", "unregister"}
                           THEN hist.registers + 1 ELSE hist.registers,
             log |-> IF t \in Senders /\ link.pc[t] # "idle"
                        /\ link'.pc[t] = "idle"
                     THEN [hist.log EXCEPT ![link.arg[t].uuid] =
                              Append(@, link.arg[t].msg)]
                     ELSE hist.log,
             drained |-> IF op = "drain"
                         THEN [hist.drained EXCEPT ![link.arg[t].uuid] =
                                  @ + Len(link'.mailbox[link.arg[t].uuid])
                                    - Len(link.mailbox[link.arg[t].uuid])]
                         ELSE hist.drained]

InitLink ==
    /\ env = [external_worker |-> FALSE, simple_protocol |-> FALSE]
    /\ controllers = <<>>
    /\ pool = NoPool
    /\ tree = NoTree
    /\ tracker = NoTracker
    /\ assistant = NoAssistant
    /\ RestIdleBut("link")
    /\ link = Link_new
    /\ hist = [op |-> "start", thread |-> "none",
               sent |-> [t \in Senders |-> <<>>], registers |-> 0,
               log |-> [u \in LinkUuids |-> <<>>],
               drained |-> [u \in LinkUuids |-> 0]]

NextLink ==
    \/ \E t \in Senders, uuid \in LinkUuids :
          /\ Len(hist.sent[t]) < MaxLinkSends
          /\ SendWhenReady(t, uuid, <<t, Len(hist.sent[t]) + 1>>)
          /\ LinkObserve("send", t, uuid)
    \/ \E t \in Senders :
          /\ SendGets(t)
          /\ LinkObserve("get", t, 0)
    \/ \E t \in Senders :
          /\ SendLocksDelayed(t)
          /\ LinkObserve("lock", t, 0)
    \/ \E t \in Senders :
          /\ SendPushes(t)
          /\ LinkObserve("push", t, 0)
    \/ \E uuid \in LinkUuids :
          /\ hist.registers < MaxRegisters
          /\ RegisterRecipient(uuid)
          /\ LinkObserve("register", Registrar, uuid)
    \/ /\ RegisterLocksDelayed
       /\ LinkObserve("lock", Registrar, 0)
    \/ /\ RegisterDrains
       /\ LinkObserve("drain", Registrar, 0)
    \/ \E uuid \in LinkUuids :
          /\ hist.registers < MaxRegisters
          /\ UnregisterRecipient(uuid)
          /\ LinkObserve("unregister", Registrar, uuid)

SpecLink == InitLink /\ [][NextLink]_vars

HeldFor(l, uuid) == IF uuid \in DOMAIN l.delayed THEN l.delayed[uuid] ELSE <<>>

\* No message is lost, doubled or out of order: what the recipient of a uuid
\* has been sent, followed by what is held for the uuid, is the messages
\* sent to the uuid in the order of their sends.
InSendOrder ==
    \A uuid \in LinkUuids :
        link.mailbox[uuid] \o HeldFor(link, uuid) = hist.log[uuid]

\* No message is stranded: outside a call that holds the lock of recipients
\* nothing is held for a uuid that has a recipient.
NothingStranded ==
    \A uuid \in LinkUuids :
        WriteLockFree(link) /\ uuid \in link.recipients
            => HeldFor(link, uuid) = <<>>

\* A send to a uuid without a recipient ends with the message held last for
\* the uuid; the registration sends the recipient all that is held for the
\* uuid, in order, after what it was sent before.
HoldsThenDelivers ==
    /\ hist'.op = "push" =>
           LET t == hist'.thread
           IN  /\ link.arg[t].uuid \notin link.recipients
               /\ HeldFor(link', link.arg[t].uuid)
                      = Append(HeldFor(link, link.arg[t].uuid), link.arg[t].msg)
               /\ link'.mailbox = link.mailbox
    /\ hist'.op = "drain" =>
           LET uuid == link.arg[Registrar].uuid
           IN  /\ uuid \in link'.recipients
               /\ link'.mailbox[uuid]
                      = link.mailbox[uuid] \o HeldFor(link, uuid)
               /\ HeldFor(link', uuid) = <<>>
               /\ \A other \in LinkUuids \ {uuid} :
                      /\ link'.mailbox[other] = link.mailbox[other]
                      /\ HeldFor(link', other) = HeldFor(link, other)

\* C28: a message sent with send_when_ready to a uuid without a recipient is
\* held under the uuid; register_recipient sends the new recipient all held
\* messages once, in the order of their sends and before any later message,
\* whatever the interleaving of the sending threads with the registering one;
\* no message is lost or left in the buffer.
C28_LinkDelayedBuffer ==
    /\ [](InSendOrder /\ NothingStranded)
    /\ [][HoldsThenDelivers]_vars

\* A registration has sent the recipient two held messages, one of each
\* sender, and the recipient has been sent a later message after them.
C28_Witness ==
    \E uuid \in LinkUuids :
        /\ hist.drained[uuid] >= 2
        /\ Len(link.mailbox[uuid]) > hist.drained[uuid]
        /\ {link.mailbox[uuid][1][1], link.mailbox[uuid][2][1]} = Senders
        /\ hist.op = "get"

(***************************************************************************)
(* worker/error_handler.rs: TaskErrorHandler                               *)
(*                                                                         *)
(* controller_addr is the variant of ControllerAddr the task runs with.    *)
(* out_stop_task counts the StopTask messages sent to the controller,      *)
(* out_ctx_stop the calls of ctx.stop() and result is what check returned, *)
(* all three for the last call of check.                                   *)
(***************************************************************************)
ControllerAddrs == {"Controller", "Reader", "None"}

TaskErrorHandler_new(controller_addr, max_errors_then_failure) ==
    [controller_addr |-> controller_addr,
     params |-> [max_errors_then_failure |-> max_errors_then_failure],
     failure |-> FALSE,
     error_counter |-> 0,
     out_stop_task |-> 0,
     out_ctx_stop |-> 0,
     result |-> FALSE]

BeginCheck(h) == [h EXCEPT !.out_stop_task = 0, !.out_ctx_stop = 0]

\* A check that fails the task as soon as the counter reaches the maximum.
check_at_maximum(h, error) ==
    IF error
    THEN LET counted == [h EXCEPT !.error_counter = @ + 1, !.result = TRUE]
         IN  IF counted.error_counter >= counted.params.max_errors_then_failure
             THEN [counted EXCEPT
                      !.failure = TRUE,
                      !.out_stop_task =
                          IF h.controller_addr = "Controller" THEN @ + 1 ELSE @,
                      !.out_ctx_stop = @ + 1]
             ELSE counted
    ELSE [h EXCEPT !.error_counter = 0, !.result = FALSE]

\* error says whether msg.error() is Some
check(h, error) ==
    IF error
    THEN LET counted == [h EXCEPT !.error_counter = @ + 1, !.result = TRUE]
         IN  IF counted.error_counter > counted.params.max_errors_then_failure
             THEN [counted EXCEPT
                      !.failure = TRUE,
                      !.out_stop_task =
                          IF h.controller_addr = "Controller" THEN @ + 1 ELSE @,
                      !.out_ctx_stop = @ + 1]
             ELSE counted
    ELSE [h EXCEPT !.error_counter = 0, !.result = FALSE]

Check(error) ==
    /\ error_handler' = check(BeginCheck(error_handler), error)
    /\ OnlyChanges("error_handler")

(***************************************************************************)
(* SpecErrorHandler: one handler, created with any ControllerAddr and a    *)
(* maximum within MaxErrorsThenFailure, checks up to MaxChecked worker     *)
(* messages with and without an error.  A client whose stopping() lets it  *)
(* run on handles messages after ctx.stop(), so the checks go on after a   *)
(* failure.  The observer records the messages checked (TRUE: with error). *)
(***************************************************************************)
MaxErrorsThenFailure == 2

MaxChecked == 5

InitErrorHandler ==
    /\ env = [external_worker |-> FALSE, simple_protocol |-> FALSE]
    /\ controllers = <<>>
    /\ pool = NoPool
    /\ tree = NoTree
    /\ tracker = NoTracker
    /\ assistant = NoAssistant
    /\ RestIdleBut("error_handler")
    /\ \E a \in ControllerAddrs, max \in 0..MaxErrorsThenFailure :
          error_handler = TaskErrorHandler_new(a, max)
    /\ hist = [op |-> "start", msgs |-> <<>>]

NextErrorHandler ==
    \/ /\ Len(hist.msgs) < MaxChecked
       /\ Check(TRUE)
       /\ hist' = [op |-> "check", msgs |-> Append(hist.msgs, TRUE)]
    \/ /\ Len(hist.msgs) < MaxChecked
       /\ Check(FALSE)
       /\ hist' = [op |-> "check", msgs |-> Append(hist.msgs, FALSE)]

SpecErrorHandler == InitErrorHandler /\ [][NextErrorHandler]_vars

\* The number of messages with an error at the end of msgs with no message
\* without an error after them.
RECURSIVE ConsecutiveErrors(_)
ConsecutiveErrors(msgs) ==
    IF msgs = <<>> \/ ~msgs[Len(msgs)] THEN 0
    ELSE 1 + ConsecutiveErrors(SubSeq(msgs, 1, Len(msgs) - 1))

Exceeds(msgs) ==
    ConsecutiveErrors(msgs) > error_handler.params.max_errors_then_failure

EverExceeded ==
    \E k \in 1..Len(hist.msgs) : Exceeds(SubSeq(hist.msgs, 1, k))

CounterAndFailure ==
    /\ error_handler.error_counter = ConsecutiveErrors(hist.msgs)
    /\ error_handler.failure <=> EverExceeded
    /\ hist.op = "check" =>
          /\ error_handler.out_ctx_stop = (IF Exceeds(hist.msgs) THEN 1 ELSE 0)
          /\ error_handler.result = hist.msgs[Len(hist.msgs)]

\* C29 as stated: a StopTask goes to the controller with every failure.
C29_StopTaskWithEveryFailure ==
    /\ CounterAndFailure
    /\ hist.op = "check" =>
          error_handler.out_stop_task = (IF Exceeds(hist.msgs) THEN 1 ELSE 0)

\* C29: check sets failure and stops the client exactly when the messages
\* with an error in a row, the checked one included, are more than
\* max_errors_then_failure, and then sends one StopTask if the task runs with
\* a worker controller (none with a reader or without an address); a message
\* without an error sets the counter to 0; failure is never cleared.
C29_ErrorThreshold ==
    /\ [](/\ CounterAndFailure
          /\ hist.op = "check" =>
                error_handler.out_stop_task
                    = (IF Exceeds(hist.msgs)
                          /\ error_handler.controller_addr = "Controller"
                       THEN 1 ELSE 0))
    /\ [][error_handler.failure => error_handler'.failure]_vars

\* An error after a reset, one more than the maximum in a row, has failed the
\* task and sent StopTask; the errors before the reset had not.
C29_Witness ==
    /\ hist.op = "check"
    /\ error_handler.controller_addr = "Controller"
    /\ error_handler.params.max_errors_then_failure = 1
    /\ hist.msgs = <<TRUE, FALSE, TRUE, TRUE>>
    /\ error_handler.failure
    /\ error_handler.out_stop_task = 1

(***************************************************************************)
(* core/app_state.rs: AppState                                             *)
(*                                                                         *)
(* out_reports counts the status reports sent to the center connector and  *)
(* out_timer_resets the resets of the report timer, both by the last       *)
(* message handled.                                                        *)
(***************************************************************************)
AppState_default ==
    [status |-> "Idle",
     active_task_uuids |-> {},
     out_reports |-> 0,
     out_timer_resets |-> 0]

BeginAppState(a) == [a EXCEPT !.out_reports = 0, !.out_timer_resets = 0]

\* A determine_status that only ever raises the status to Running.
determine_status_running_only(a) ==
    IF Cardinality(a.active_task_uuids) > 0
    THEN [a EXCEPT !.status = "Running"]
    ELSE a

determine_status(a) ==
    IF Cardinality(a.active_task_uuids) > 0
    THEN [a EXCEPT !.status = "Running"]
    ELSE [a EXCEPT !.status = "Idle"]

generate_status_report(a) == [a EXCEPT !.out_reports = @ + 1]

report_status_timer_reset(a) == [a EXCEPT !.out_timer_resets = @ + 1]

app_handle_task_update(a, task_uuid, tag) ==
    IF tag # "Started" THEN a
    ELSE report_status_timer_reset(generate_status_report(determine_status(
             [a EXCEPT !.active_task_uuids = @ \cup {task_uuid}])))

app_handle_close_task(a, task_uuid) ==
    report_status_timer_reset(generate_status_report(determine_status(
        [a EXCEPT !.active_task_uuids = @ \ {task_uuid}])))

app_handle_report_status(a) ==
    report_status_timer_reset(generate_status_report(a))

AppStateStep(a) ==
    /\ app_state' = a
    /\ OnlyChanges("app_state")

AppTaskUpdate(task_uuid, tag) ==
    AppStateStep(app_handle_task_update(BeginAppState(app_state), task_uuid, tag))

AppCloseTask(task_uuid) ==
    AppStateStep(app_handle_close_task(BeginAppState(app_state), task_uuid))

AppReportStatus ==
    AppStateStep(app_handle_report_status(BeginAppState(app_state)))

(***************************************************************************)
(* SpecAppState: the app state handles up to MaxAppMessages messages:      *)
(* TaskUpdates of every tag and CloseTasks for the uuids of AppUuids, and  *)
(* the tick of its report timer, in any order.  The observer records the   *)
(* message handled and, per uuid, which of Started and CloseTask came last.*)
(***************************************************************************)
MaxAppMessages == 5

AppUuids == {1, 2}

AppObserve(op, task_uuid, tag) ==
    hist' = [op |-> op,
             task_uuid |-> task_uuid,
             tag |-> tag,
             handled |-> hist.handled + 1,
             last |-> IF op = "CloseTask" \/ (op = "TaskUpdate" /\ tag = "Started")
                      THEN [hist.last EXCEPT ![task_uuid] =
                               IF op = "CloseTask" THEN op ELSE tag]
                      ELSE hist.last]

InitAppState ==
    /\ env = [external_worker |-> FALSE, simple_protocol |-> FALSE]
    /\ controllers = <<>>
    /\ pool = NoPool
    /\ tree = NoTree
    /\ tracker = NoTracker
    /\ assistant = NoAssistant
    /\ RestIdleBut("app_state")
    /\ app_state = AppState_default
    /\ hist = [op |-> "start", task_uuid |-> 0, tag |-> "Unknown", handled |-> 0,
               last |-> [u \in AppUuids |-> "none"]]

NextAppState ==
    \/ \E task_uuid \in AppUuids, tag \in TaskUpdateTags \cup {"Unknown"} :
          /\ hist.handled < MaxAppMessages
          /\ AppTaskUpdate(task_uuid, tag)
          /\ AppObserve("TaskUpdate", task_uuid, tag)
    \/ \E task_uuid \in AppUuids :
          /\ hist.handled < MaxAppMessages
          /\ AppCloseTask(task_uuid)
          /\ AppObserve("CloseTask", task_uuid, "Unknown")
    \/ /\ hist.handled < MaxAppMessages
       /\ AppReportStatus
       /\ AppObserve("ReportStatus", 0, "Unknown")

SpecAppState == InitAppState /\ [][NextAppState]_vars

StatusOfSet ==
    app_state.status
        = (IF app_state.active_task_uuids # {} THEN "Running" ELSE "Idle")

ActiveFromStartedToClose ==
    app_state.active_task_uuids = {u \in AppUuids : hist.last[u] = "Started"}

OtherTagsChangeNothing ==
    hist'.op = "TaskUpdate" /\ hist'.tag # "Started" =>
        /\ app_state'.active_task_uuids = app_state.active_task_uuids
        /\ app_state'.status = app_state.status

\* C30: after every message the app state handles, status is Running iff the
\* set of active tasks is not empty and Idle otherwise; a uuid is in the set
\* exactly from its TaskUpdate tagged Started until its CloseTask; an update
\* with another tag leaves the set and the status as they were.
C30_AppStatus ==
    /\ [](StatusOfSet /\ ActiveFromStartedToClose)
    /\ [][OtherTagsChangeNothing]_vars

\* The last of two active tasks has been closed and the status is Idle again.
C30_Witness ==
    /\ hist.op = "CloseTask"
    /\ hist.last = [u \in AppUuids |-> "CloseTask"]
    /\ app_state.active_task_uuids = {}
    /\ app_state.status = "Idle"

(***************************************************************************)
(* SpecSimple: one controller configured with general.simple_protocol,     *)
(* with or without an external worker.  Clients register, tasks are        *)
(* reserved, requests arrive, the worker sends any signal, and the         *)
(* heartbeat timers fire when they are armed.  The observer records        *)
(*   op, msg     the message handled by the latest step                    *)
(*   requests    the client requests handled                               *)
(*   heartbeats  the HeartbeatRequest messages sent to the worker          *)
(***************************************************************************)
SimpleRequests == 1

HeartbeatRequestsOf(messages) ==
    SelectSeq(messages, LAMBDA m : m.data = "heartbeat_request")

SimpleObserve(op, msg) ==
    hist' = [op |-> op,
             msg |-> msg,
             requests |-> IF op = "request" THEN hist.requests + 1
                          ELSE hist.requests,
             heartbeats |-> Min(CounterCap,
                                hist.heartbeats
                                  + Len(HeartbeatRequestsOf(
                                            controllers'[1].out_worker)))]

InitSimple ==
    /\ env \in [external_worker : BOOLEAN, simple_protocol : {TRUE}]
    /\ controllers = <<WorkerController_new("0")>>
    /\ pool = NoPool
    /\ tree = NoTree
    /\ tracker = NoTracker
    /\ assistant = NoAssistant
    /\ RestIdle
    /\ hist = [op |-> "new", msg |-> <<>>, requests |-> 0, heartbeats |-> 0]

NextSimple ==
    \/ /\ ControllerStarted(1, TRUE)
       /\ SimpleObserve("started", <<>>)
    \/ \E subject \in Subjects : \E name \in SignalNames(subject) :
          /\ WorkerSignal(1, subject, name)
          /\ SimpleObserve(subject, <<>>)
    \/ \E t \in Tasks :
          /\ ReserveForTask(1, t)
          /\ SimpleObserve("ReserveForTask", <<>>)
    \/ \E t \in Tasks :
          /\ RegisterClient(1, t)
          /\ SimpleObserve("RegisterClient", <<>>)
    \/ \E t \in Tasks, p \in PluginNames :
          LET msg == TaskMessage("0", t, p, hist.requests + 1)
          IN  /\ hist.requests < SimpleRequests
              /\ WorkerMessage(1, msg)
              /\ SimpleObserve("request", msg)
    \/ /\ hist.heartbeats < CounterCap
       /\ HeartbeatInterval(1)
       /\ SimpleObserve("HeartbeatInterval", <<>>)
    \/ /\ HeartbeatResponseReceived(1)
       /\ SimpleObserve("HeartbeatResponseReceived", <<>>)
    \/ /\ HeartbeatTimeout(1, TRUE)
       /\ SimpleObserve("HeartbeatTimeout", <<>>)

SpecSimple == InitSimple /\ [][NextSimple]_vars

\* No HeartbeatRequest has been sent and neither heartbeat timer is armed.
NoHeartbeats ==
    /\ hist.heartbeats = 0
    /\ ~controllers[1].heartbeat_interval_timer
    /\ ~controllers[1].heartbeat_timeout_timer

\* A request of a reserved task with a registered client is transmitted by
\* the step that handles it, whatever the state and the active plugin, and
\* the state, the plugin and the queues stay as they are.
TransmitsAtOnce ==
    (/\ hist'.op = "request"
     /\ hist'.msg.task_uuid \in controllers[1].reserved_tasks
     /\ hist'.msg.task_uuid \in controllers[1].active_clients)
    => /\ controllers'[1].out_worker = <<hist'.msg>>
       /\ controllers'[1].state = controllers[1].state
       /\ controllers'[1].state # "Busy" \/ controllers[1].state = "Busy"
       /\ controllers'[1].plugin = controllers[1].plugin
       /\ controllers'[1].delayed_worker_messages
             = controllers[1].delayed_worker_messages

\* The second half of C31 alone: in simple-protocol mode every reserved,
\* client-registered request is transmitted at once without a change of
\* state.
SimpleTransmitsAtOnce == [][TransmitsAtOnce]_vars

\* C31 as stated: a controller with simple_protocol never sends a
\* HeartbeatRequest and never arms a heartbeat timer, whatever the worker
\* sends, and it transmits every reserved, client-registered request at once
\* in every state and with every active plugin, without becoming Busy.
C31_SimpleProtocol ==
    /\ []NoHeartbeats
    /\ [][TransmitsAtOnce]_vars

\* What does hold: a simple-protocol controller of an external worker sends
\* no HeartbeatRequest and arms no timer.
SimpleExternalNoHeartbeats == env.external_worker => NoHeartbeats

(***************************************************************************)
(* Admission and conservation of requests, on Spec.  A step of Spec that   *)
(* handles a request adds one to hist.requests, and adds the request to    *)
(* hist.accepted when the task was reserved.                               *)
(***************************************************************************)
RequestStep == hist'.requests = hist.requests + 1

UnreservedRequestStep == RequestStep /\ hist'.accepted = hist.accepted

ReservedRequestStep == RequestStep /\ hist'.accepted # hist.accepted

TheRequest == hist'.accepted[Len(hist'.accepted)]

\* C32: a request (dest Worker) of a task the controller is not reserved for
\* is not transmitted and enters no queue; state, active plugin, queues and
\* everything else of the controller stay as they were.
C32_UnreservedDropped ==
    [][UnreservedRequestStep =>
          /\ controllers'[1].out_worker = <<>>
          /\ controllers'[1].out_client = <<>>
          /\ controllers'[1] = Begin(controllers[1])]_vars

\* The second request, of a task not reserved, has been dropped while the
\* first one waits in the queue for its client.
C32_Witness ==
    /\ hist.requests = 2
    /\ Len(hist.accepted) = 1
    /\ hist.accepted[1].id = 1
    /\ controllers[1].delayed_worker_messages = hist.accepted
    /\ controllers[1].state = "Ready"
    /\ controllers[1].reserved_tasks # Tasks
    /\ hist.sent = <<>>

NoClientRequestStep ==
    /\ ReservedRequestStep
    /\ TheRequest.task_uuid \notin controllers[1].active_clients

\* C33 as stated: a request of a task without a registered client is pushed
\* to delayed_client_messages and to no other queue, and is not transmitted.
C33_ToDelayedClientMessages ==
    [][NoClientRequestStep =>
          /\ controllers'[1].delayed_client_messages
                = Append(controllers[1].delayed_client_messages, TheRequest)
          /\ controllers'[1].delayed_worker_messages
                = controllers[1].delayed_worker_messages
          /\ controllers'[1].out_worker = <<>>]_vars

\* C33: a request of a reserved task without a registered client is pushed
\* to the end of delayed_worker_messages, the queue of the messages for the
\* worker, and to no other queue; nothing is transmitted, and state and
\* active plugin stay as they were.
C33_ToDelayedWorkerMessages ==
    [][NoClientRequestStep =>
          /\ controllers'[1].delayed_worker_messages
                = Append(controllers[1].delayed_worker_messages, TheRequest)
          /\ controllers'[1].delayed_client_messages
                = controllers[1].delayed_client_messages
          /\ controllers'[1].out_worker = <<>>
          /\ controllers'[1].state = controllers[1].state
          /\ controllers'[1].plugin = controllers[1].plugin]_vars

\* A Ready controller with the plugin the request names has buffered the
\* request because its task has no client.
C33_Witness ==
    /\ Len(hist.accepted) = 1
    /\ controllers[1].delayed_worker_messages = hist.accepted
    /\ controllers[1].state = "Ready"
    /\ controllers[1].plugin = WorkerPlugin_from_str(hist.accepted[1].plugin)
    /\ hist.accepted[1].task_uuid \notin controllers[1].active_clients
    /\ controllers[1].out_worker = <<>>
    /\ hist.sent = <<>>

\* The number of times a message occurs in a sequence.
Occurrences(messages, m) == Cardinality({k \in DOMAIN messages : messages[k] = m})

\* The messages of a sequence that are also in another, in their order.
Among(messages, others) == SelectSeq(messages, LAMBDA m : m \in Range(others))

\* Each accepted request is once in the queue and never transmitted, or
\* transmitted once and not in the queue; nothing else is in either.
Conserved ==
    /\ \A k \in DOMAIN hist.accepted :
          Occurrences(controllers[1].delayed_worker_messages, hist.accepted[k])
             + Occurrences(hist.sent, hist.accepted[k]) = 1
    /\ Range(controllers[1].delayed_worker_messages) \subseteq Range(hist.accepted)
    /\ Range(hist.sent) \subseteq Range(hist.accepted)

\* The requests buffered before and after a step are in the same order.
BufferedOrderKept ==
    Among(controllers[1].delayed_worker_messages,
          controllers'[1].delayed_worker_messages)
       = Among(controllers'[1].delayed_worker_messages,
               controllers[1].delayed_worker_messages)

\* C40: in the regular protocol every accepted request (task reserved) is at
\* every later moment buffered exactly once in delayed_worker_messages or has
\* been handed to the worker dispatcher exactly once; requests, readiness
\* signals, RegisterClient, CloseTask and heartbeat timeouts neither lose nor
\* double it, and no step changes the relative order of buffered requests.
C40_RequestConservation ==
    /\ []Conserved
    /\ [][BufferedOrderKept]_vars

\* One request has been transmitted and the other is still buffered after
\* the clients were closed and a heartbeat timeout found no worker to spawn.
C40_Witness ==
    /\ Len(hist.accepted) = 2
    /\ Len(hist.sent) = 1
    /\ Len(controllers[1].delayed_worker_messages) = 1
    /\ controllers[1].state = "Error"
    /\ controllers[1].active_clients = {}

(***************************************************************************)
(* SpecStop: one controller of the regular protocol, with either kind of   *)
(* worker, that is told to stop and to close tasks at any moment, between  *)
(* reservations, registrations, a request, replies of the worker, worker   *)
(* signals and a heartbeat timeout.  The observer records                  *)
(*   op, task   the message handled by the latest step and its task        *)
(*   requests, replies   the requests and replies handled                  *)
(*   closed     the tasks whose latest RegisterClient or CloseTask was a   *)
(*              CloseTask                                                  *)
(***************************************************************************)
StopRequests == 1

StopReplies == 1

StopObserve(op, task) ==
    hist' = [op |-> op,
             task |-> task,
             requests |-> IF op = "request" THEN hist.requests + 1
                          ELSE hist.requests,
             replies |-> IF op = "reply" THEN hist.replies + 1
                         ELSE hist.replies,
             closed |-> CASE op = "CloseTask" -> hist.closed \cup {task}
                          [] op = "RegisterClient" -> hist.closed \ {task}
                          [] OTHER -> hist.closed]

InitStop ==
    /\ env \in [external_worker : BOOLEAN, simple_protocol : {FALSE}]
    /\ controllers = <<WorkerController_new("0")>>
    /\ pool = NoPool
    /\ tree = NoTree
    /\ tracker = NoTracker
    /\ assistant = NoAssistant
    /\ RestIdle
    /\ hist = [op |-> "new", task |-> NoTask, requests |-> 0, replies |-> 0,
               closed |-> {}]

NextStop ==
    \/ /\ ControllerStarted(1, TRUE)
       /\ StopObserve("started", NoTask)
    \/ \E subject \in Subjects \ {"Error", "ControlResponse"} :
       \E name \in SignalNames(subject) \ {"headless_browser"} :
          /\ WorkerSignal(1, subject, name)
          /\ StopObserve(subject, NoTask)
    \/ \E t \in Tasks :
          /\ ReserveForTask(1, t)
          /\ StopObserve("ReserveForTask", t)
    \/ \E t \in Tasks :
          /\ RegisterClient(1, t)
          /\ StopObserve("RegisterClient", t)
    \/ \E t \in Tasks :
          /\ hist.requests < StopRequests
          /\ WorkerMessage(1, TaskMessage("0", t, "basic", hist.requests + 1))
          /\ StopObserve("request", t)
    \/ \E t \in Tasks :
          /\ hist.replies < StopReplies
          /\ WorkerMessage(1, ClientMessage("0", t, hist.replies + 1))
          /\ StopObserve("reply", t)
    \/ \E t \in Tasks :
          /\ StopTask(1, t)
          /\ StopObserve("StopTask", t)
    \/ \E t \in Tasks :
          /\ CloseTask(1, t)
          /\ StopObserve("CloseTask", t)
    \/ /\ HeartbeatResponseReceived(1)
       /\ StopObserve("HeartbeatResponseReceived", NoTask)
    \/ \E spawned \in BOOLEAN :
          /\ HeartbeatTimeout(1, spawned)
          /\ StopObserve("HeartbeatTimeout", NoTask)

SpecStop == InitStop /\ [][NextStop]_vars

\* StopTask sends the one stop_task request and changes nothing else.
StopsAtOnce ==
    hist'.op = "StopTask" =>
        controllers'[1]
           = [Begin(controllers[1]) EXCEPT
                 !.out_worker = <<StopTaskRequest("0", hist'.task)>>]

\* CloseTask removes the task's client and changes nothing else.
ClosesClientOnly ==
    hist'.op = "CloseTask" =>
        controllers'[1]
           = [Begin(controllers[1]) EXCEPT
                 !.active_clients = @ \ {hist'.task}]

\* A reply of a task closed and not registered again joins the buffered
\* replies and reaches no client.
BuffersReplyOfClosed ==
    hist'.op = "reply" /\ hist'.task \in hist.closed =>
        /\ controllers'[1].out_client = <<>>
        /\ Len(controllers'[1].delayed_client_messages)
              = Len(controllers[1].delayed_client_messages) + 1
        /\ controllers'[1].delayed_client_messages[
               Len(controllers'[1].delayed_client_messages)].task_uuid
              = hist'.task

\* C34: StopTask{task_uuid} makes the controller send one stop_task control
\* request to the worker at once, in every state and with every active
\* plugin, whether or not the task is reserved or has a client, and changes
\* neither the state nor a queue; CloseTask{task_uuid} only removes the
\* client's registration, so a later reply of the task is buffered.
C34_UrgentStop == [][StopsAtOnce /\ ClosesClientOnly /\ BuffersReplyOfClosed]_vars

\* A task neither reserved nor registered has been stopped while the
\* controller was not Ready and a request was buffered.
C34_Witness ==
    /\ hist.op = "StopTask"
    /\ hist.task \notin controllers[1].reserved_tasks
    /\ hist.task \notin controllers[1].active_clients
    /\ controllers[1].state = "Busy"
    /\ controllers[1].delayed_worker_messages # <<>>
    /\ controllers[1].out_worker = <<StopTaskRequest("0", hist.task)>>

\* The reply of a closed task has been buffered.
RepliedAfterClose ==
    /\ hist.op = "reply"
    /\ hist.task \in hist.closed
    /\ controllers[1].delayed_client_messages # <<>>
(***************************************************************************)
(* worker/processor.rs                                                     *)
(*                                                                         *)
(* process_task asks the pool for a controller and waits for the answer    *)
(* (ctx.wait), so the processor handles one task at a time.  A task is     *)
(* [uuid, worker_id] as in the reprocessor.                                *)
(***************************************************************************)
\* GenTaskDefinition::update_worker_id
update_worker_id(task, worker_id) == [task EXCEPT !.worker_id = worker_id]

\* process_task, the continuation when next() returned a controller
process_task_placed(task, result) == update_worker_id(task, result.id)

\* The position in the pool, from 0, of the controller that accepted the
\* latest call: the one before the cursor.
AcceptedPosition ==
    (pool.next_to_use + Len(pool.controllers) - 1) % Len(pool.controllers)

MaxRequeueTasks == 2

PoolCapacity == 1

NoTaskItem == [uuid |-> NoTask, worker_id |-> ""]

ReprocessTaskMessage(task) ==
    [kind |-> "ReprocessTask", task |-> task, worker_id |-> ""]

WorkerReadyMessage(worker_id) ==
    [kind |-> "WorkerReady", task |-> NoTaskItem, worker_id |-> worker_id]

\* The WorkerReady messages of the ready() calls of one handler.
WorkerReadyMessages(ids) ==
    [k \in DOMAIN ids |-> WorkerReadyMessage(ids[k])]

RequeueFrame ==
    UNCHANGED <<env, tree, tracker, assistant, transport, timeout_actor,
                link, error_handler, app_state>>

RequeueObserve(op, uuid) ==
    hist' = [op |-> op,
             arrived |-> IF op = "task" THEN uuid ELSE hist.arrived,
             placed |-> hist.placed \cup
                        {processor'.out[k].uuid : k \in DOMAIN processor'.out},
             requested |-> IF op = "request" THEN hist.requested \cup {uuid}
                           ELSE hist.requested,
             resent |-> IF op = "reprocessor"
                        THEN hist.resent \cup
                             {reprocessor'.out[k].uuid :
                                  k \in DOMAIN reprocessor'.out}
                        ELSE hist.resent]

\* One handler of controller i; its ready() calls reach the reprocessor's
\* mailbox.
ControllerSends(i, c) ==
    /\ Running(i)
    /\ controllers' = [controllers EXCEPT ![i] = c]
    /\ reprocessor_mailbox' =
           reprocessor_mailbox \o WorkerReadyMessages(c.out_reprocessor)
    /\ UNCHANGED <<pool, reprocessor, processor>>
    /\ RequeueFrame

\* A new task is sent to the processor.
TaskArrives(task) ==
    /\ processor' = [processor EXCEPT !.mailbox = Append(@, task),
                                      !.out = <<>>]
    /\ UNCHANGED <<controllers, pool, reprocessor, reprocessor_mailbox>>
    /\ RequeueFrame

\* Handler<TaskWrapperItemMessage>: process_task up to the first await of
\* next(); ctx.wait keeps the other tasks in the mailbox.
ProcessTask ==
    /\ ~processor.waiting
    /\ processor.mailbox # <<>>
    /\ LET task == Head(processor.mailbox)
       IN  /\ pool' = ControllerPool_next_begin(pool, task.uuid,
                                                Len(controllers) + 1)
           /\ processor' = [processor EXCEPT !.mailbox = Tail(@),
                                             !.task = task,
                                             !.waiting = TRUE,
                                             !.out = <<>>]
    /\ controllers' =
          IF pool'.created
          THEN Append(controllers,
                      WorkerController_new(At(pool'.controller_ids,
                                              Len(controllers))))
          ELSE controllers
    /\ UNCHANGED <<reprocessor, reprocessor_mailbox>>
    /\ RequeueFrame

\* process_task, the continuation (.then) after next() has returned.
ProcessTaskContinues ==
    /\ processor.waiting
    /\ ~pool.active
    /\ processor' =
           [processor EXCEPT
              !.task = NoTaskItem,
              !.waiting = FALSE,
              !.out = IF pool.result.some
                      THEN <<process_task_placed(processor.task, pool.result)>>
                      ELSE <<>>]
    /\ reprocessor_mailbox' =
           IF pool.result.some THEN reprocessor_mailbox
           ELSE Append(reprocessor_mailbox,
                       ReprocessTaskMessage(processor.task))
    /\ UNCHANGED <<controllers, pool, reprocessor>>
    /\ RequeueFrame

\* The reprocessor handles the message at the head of its mailbox; the tasks
\* it re-sends reach the processor's mailbox.
ReprocessorHandles ==
    /\ reprocessor_mailbox # <<>>
    /\ LET msg == Head(reprocessor_mailbox)
           r == BeginReprocessor(reprocessor)
       IN  reprocessor' = IF msg.kind = "ReprocessTask"
                          THEN handle_reprocess_task(r, msg.task)
                          ELSE handle_worker_ready(r, msg.worker_id)
    /\ reprocessor_mailbox' = Tail(reprocessor_mailbox)
    /\ processor' = [processor EXCEPT !.mailbox = @ \o reprocessor'.out,
                                      !.out = <<>>]
    /\ UNCHANGED <<controllers, pool>>
    /\ RequeueFrame

InitRequeue ==
    /\ env = [external_worker |-> FALSE, simple_protocol |-> FALSE]
    /\ controllers = <<>>
    /\ pool = ControllerPool_new(PoolCapacity)
    /\ tree = NoTree
    /\ tracker = NoTracker
    /\ assistant = NoAssistant
    /\ RestIdle
    /\ hist = [op |-> "start", arrived |-> 0, placed |-> {}, requested |-> {},
               resent |-> {}]

RequeueTaskArrives ==
    /\ hist.arrived < MaxRequeueTasks
    /\ TaskArrives([uuid |-> hist.arrived + 1, worker_id |-> ""])
    /\ RequeueObserve("task", hist.arrived + 1)

RequeueProcessTask == ProcessTask /\ RequeueObserve("process_task", NoTask)

RequeueProbe ==
    /\ processor.waiting
    /\ PoolProbe(TRUE)
    /\ RequeueObserve("probe", NoTask)

RequeueContinues == ProcessTaskContinues /\ RequeueObserve("then", NoTask)

RequeueReprocessor == ReprocessorHandles /\ RequeueObserve("reprocessor", NoTask)

RequeueStarted ==
    \E i \in DOMAIN controllers :
        /\ ControllerStarted(i, TRUE)
        /\ RequeueObserve("started", NoTask)

\* The spawned worker reports Started; the worker that got a request reports
\* Ready.
RequeueWorkerSignal ==
    \E i \in DOMAIN controllers, subject \in {"Started", "Ready"} :
        /\ controllers[i].state =
               (IF subject = "Started" THEN "Starting" ELSE "Busy")
        /\ ControllerSends(i, handle_controller_message(
                                  Begin(controllers[i]), subject, NoName))
        /\ RequeueObserve(subject, NoTask)

RequeueRegisterClient ==
    \E i \in DOMAIN controllers, t \in hist.placed :
        /\ t \in controllers[i].reserved_tasks \ controllers[i].active_clients
        /\ ControllerSends(i, HandleRegisterClient(Begin(controllers[i]), t))
        /\ RequeueObserve("RegisterClient", t)

RequeueRequest ==
    \E i \in DOMAIN controllers, t \in hist.placed \ hist.requested :
        /\ t \in controllers[i].active_clients
        /\ ControllerSends(i, HandleWorkerMessage(
                                  Begin(controllers[i]),
                                  TaskMessage(controllers[i].id, t, "none", t)))
        /\ RequeueObserve("request", t)

RequeueHeartbeat ==
    \E i \in DOMAIN controllers :
        \/ /\ controllers[i].heartbeat_interval_timer
           /\ ControllerSends(i, HandleHeartbeatInterval(Begin(controllers[i])))
           /\ RequeueObserve("HeartbeatInterval", NoTask)
        \/ /\ controllers[i].alive_pending
           /\ ControllerSends(i, HandleHeartbeatResponseReceived(
                                     Begin(controllers[i])))
           /\ RequeueObserve("HeartbeatResponse", NoTask)

NextRequeue ==
    \/ RequeueTaskArrives
    \/ RequeueProcessTask
    \/ RequeueProbe
    \/ RequeueContinues
    \/ RequeueReprocessor
    \/ RequeueStarted
    \/ RequeueWorkerSignal
    \/ RequeueRegisterClient
    \/ RequeueRequest
    \/ RequeueHeartbeat

\* Every actor handles the messages of its mailbox, the futures it awaits
\* are completed, the timers fire and the worker answers.
SpecRequeue ==
    /\ InitRequeue
    /\ [][NextRequeue]_vars
    /\ WF_vars(RequeueProcessTask)
    /\ WF_vars(RequeueProbe)
    /\ WF_vars(RequeueContinues)
    /\ WF_vars(RequeueReprocessor)
    /\ WF_vars(RequeueStarted)
    /\ WF_vars(RequeueWorkerSignal)
    /\ WF_vars(RequeueRegisterClient)
    /\ WF_vars(RequeueRequest)
    /\ WF_vars(RequeueHeartbeat)

Buffered(uuid) ==
    \/ \E k \in DOMAIN reprocessor.tasks : reprocessor.tasks[k].uuid = uuid
    \/ \E w \in DOMAIN reprocessor.tasks_linked_with_worker :
           \E k \in DOMAIN reprocessor.tasks_linked_with_worker[w] :
               reprocessor.tasks_linked_with_worker[w][k].uuid = uuid

SomeControllerReady ==
    \E i \in DOMAIN controllers : controllers[i].state = "Ready"

WorkerReadyPending ==
    \E k \in DOMAIN reprocessor_mailbox :
        reprocessor_mailbox[k].kind = "WorkerReady"

\* C36: a task buffered in the reprocessor while a controller is Ready is
\* eventually re-sent to the task processor, and it does not happen that
\* from some moment on a task stays buffered while a controller is Ready and
\* no WorkerReady is pending.
C36_NoLostWakeup ==
    \A uuid \in 1..MaxRequeueTasks :
        /\ (Buffered(uuid) /\ SomeControllerReady) ~> ~Buffered(uuid)
        /\ []<>~(Buffered(uuid) /\ SomeControllerReady /\ ~WorkerReadyPending)

(***************************************************************************)
(* SpecFlush: one controller in the regular protocol with a spawned        *)
(* worker; tasks are reserved, clients register, requests arrive, the      *)
(* worker sends its readiness signals and is recovered after a heartbeat   *)
(* timeout.  The observer records the latest step (op, and name for        *)
(* PluginReady), the number of requests received, and since: the number    *)
(* of requests transmitted to the worker in and after the latest step      *)
(* that handled a readiness signal (from the start, before the first).     *)
(***************************************************************************)
FlushRequests == 3

FlushPlugins == {"none", "basic"}

\* Started, Ready, and PluginReady with a name: the signals whose handlers
\* call state.ready().
ReadinessSignal(op, name) ==
    \/ op \in {"Started", "Ready"}
    \/ op = "PluginReady" /\ name # NoName

FlushObserve(op, name) ==
    LET transmitted == Len(TaskMessagesOf(controllers'[1].out_worker))
    IN  hist' = [op |-> op,
                 name |-> name,
                 requests |-> IF op = "request" THEN hist.requests + 1
                              ELSE hist.requests,
                 since |-> IF ReadinessSignal(op, name) THEN transmitted
                           ELSE hist.since + transmitted]

InitFlush ==
    /\ env = [external_worker |-> FALSE, simple_protocol |-> FALSE]
    /\ controllers = <<WorkerController_new("0")>>
    /\ pool = NoPool
    /\ tree = NoTree
    /\ tracker = NoTracker
    /\ assistant = NoAssistant
    /\ RestIdle
    /\ hist = [op |-> "start", name |-> NoName, requests |-> 0, since |-> 0]

NextFlush ==
    \/ /\ ControllerStarted(1, TRUE)
       /\ FlushObserve("started", NoName)
    \/ \E t \in Tasks, p \in FlushPlugins :
          /\ hist.requests < FlushRequests
          /\ WorkerMessage(1, TaskMessage("0", t, p, hist.requests + 1))
          /\ FlushObserve("request", NoName)
    \/ \E subject \in {"Started", "Ready", "PluginReady"} :
          \E name \in SignalNames(subject) \ {"headless_browser"} :
              /\ WorkerSignal(1, subject, name)
              /\ FlushObserve(subject, name)
    \/ \E t \in Tasks :
          /\ RegisterClient(1, t)
          /\ FlushObserve("RegisterClient", NoName)
    \/ \E t \in Tasks :
          /\ ReserveForTask(1, t)
          /\ FlushObserve("ReserveForTask", NoName)
    \/ /\ HeartbeatTimeout(1, TRUE)
       /\ FlushObserve("HeartbeatTimeout", NoName)
    \/ /\ HeartbeatResponseReceived(1)
       /\ FlushObserve("HeartbeatResponseReceived", NoName)

SpecFlush == InitFlush /\ [][NextFlush]_vars

\* The positions of the buffered requests whose task has a registered client.
RegisteredIn(c, q) == {k \in DOMAIN q : q[k].task_uuid \in c.active_clients}

\* The least member of a non-empty set of numbers.
Least(S) == CHOOSE k \in S : \A j \in S : k <= j

\* What the handler of a readiness signal does with the buffered requests q:
\* the requests of unregistered tasks stay; the first request of a
\* registered task is transmitted if it names the active plugin, and makes
\* the controller ask for its plugin otherwise; every other request is
\* buffered again, in the order it had.
FlushesFirstAdmissible ==
    ReadinessSignal(hist'.op, hist'.name) =>
        LET c == controllers[1]
            c2 == controllers'[1]
            q == c.delayed_worker_messages
            sent == TaskMessagesOf(c2.out_worker)
            registered == RegisteredIn(c, q)
        IN  IF registered = {}
            THEN /\ sent = <<>>
                 /\ c2.delayed_worker_messages = q
                 /\ c2.state = "Ready"
            ELSE LET first == Least(registered)
                 IN  /\ c2.state = "Busy"
                     /\ IF WorkerState_is_plugin(
                               c2, WorkerPlugin_from_str(q[first].plugin))
                        THEN /\ sent = <<q[first]>>
                             /\ c2.delayed_worker_messages = Without(q, first)
                             /\ SetupMessagesOf(c2.out_worker) = <<>>
                        ELSE /\ sent = <<>>
                             /\ c2.delayed_worker_messages = q
                             /\ Len(SetupMessagesOf(c2.out_worker)) = 1

\* C37: in the regular protocol at most one request is transmitted to the
\* worker from one readiness signal (Started, Ready, PluginReady) up to the
\* next, the signal's own handler included; the handler of a readiness
\* signal transmits, of the buffered requests, the first that passes the
\* admission, leaves the controller Busy, and buffers the others again in
\* the order they had.
C37_OnePerReadinessSignal ==
    /\ [](hist.since <= 1)
    /\ [][/\ Len(TaskMessagesOf(controllers'[1].out_worker)) = 1 =>
                controllers'[1].state = "Busy"
          /\ FlushesFirstAdmissible]_vars

\* A readiness signal found three requests buffered, the first of a task
\* without a client: the second was transmitted and the first and the third
\* stay, in this order.
C37_Witness ==
    /\ ReadinessSignal(hist.op, hist.name)
    /\ hist.since = 1
    /\ controllers[1].state = "Busy"
    /\ Len(controllers[1].delayed_worker_messages) = 2
    /\ controllers[1].delayed_worker_messages[1].id = 1
    /\ controllers[1].delayed_worker_messages[2].id = 3
    /\ TaskMessagesOf(controllers[1].out_worker) # <<>>
    /\ controllers[1].out_worker[1].id = 2

(***************************************************************************)
(* SpecRecovery: one controller in the regular protocol with a spawned     *)
(* worker that may stop answering the heartbeat.  Tasks are reserved,      *)
(* clients register, requests and a reply arrive, the worker sends its     *)
(* signals.  The observer records the latest step, the numbers of requests *)
(* and replies received, and of the latest heartbeat timeout: the plugin   *)
(* recorded and the number of replies buffered when it was handled         *)
(* (crash; crash.pending until Started or a PluginReady with a name is     *)
(* handled), and whether the latest step was the Started that followed it  *)
(* (recovered).                                                            *)
(***************************************************************************)
RecoveryRequests == 1

RecoveryReplies == 1

RecoveryPlugins == {"none", "basic"}

RecoveryObserve(op, name) ==
    LET c == controllers[1]
    IN  hist' = [op |-> op,
                 requests |-> IF op = "request" THEN hist.requests + 1
                              ELSE hist.requests,
                 replies |-> IF op = "reply" THEN hist.replies + 1
                             ELSE hist.replies,
                 crash |-> IF op = "HeartbeatTimeout"
                           THEN [pending |-> TRUE,
                                 plugin |-> c.plugin,
                                 replies |-> Len(c.delayed_client_messages)]
                           ELSE IF ReadinessSignal(op, name)
                           THEN [hist.crash EXCEPT !.pending = FALSE]
                           ELSE hist.crash,
                 recovered |-> op = "Started" /\ hist.crash.pending]

InitRecovery ==
    /\ env = [external_worker |-> FALSE, simple_protocol |-> FALSE]
    /\ controllers = <<WorkerController_new("0")>>
    /\ pool = NoPool
    /\ tree = NoTree
    /\ tracker = NoTracker
    /\ assistant = NoAssistant
    /\ RestIdle
    /\ hist = [op |-> "start", requests |-> 0, replies |-> 0,
               crash |-> [pending |-> FALSE, plugin |-> "None", replies |-> 0],
               recovered |-> FALSE]

NextRecovery ==
    \/ /\ ControllerStarted(1, TRUE)
       /\ RecoveryObserve("started", NoName)
    \/ \E t \in Tasks, p \in RecoveryPlugins :
          /\ hist.requests < RecoveryRequests
          /\ WorkerMessage(1, TaskMessage("0", t, p, hist.requests + 1))
          /\ RecoveryObserve("request", NoName)
    \/ \E t \in Tasks :
          /\ hist.replies < RecoveryReplies
          /\ WorkerMessage(1, ClientMessage("0", t, hist.replies + 1))
          /\ RecoveryObserve("reply", NoName)
    \/ \E subject \in {"Started", "Ready", "PluginReady"} :
          \E name \in SignalNames(subject) \ {"headless_browser", "none"} :
              /\ WorkerSignal(1, subject, name)
              /\ RecoveryObserve(subject, name)
    \/ \E t \in Tasks :
          /\ RegisterClient(1, t)
          /\ RecoveryObserve("RegisterClient", NoName)
    \/ \E t \in Tasks :
          /\ ReserveForTask(1, t)
          /\ RecoveryObserve("ReserveForTask", NoName)
    \/ \E spawned \in BOOLEAN :
          /\ HeartbeatTimeout(1, spawned)
          /\ RecoveryObserve("HeartbeatTimeout", NoName)
    \/ /\ HeartbeatResponseReceived(1)
       /\ RecoveryObserve("HeartbeatResponseReceived", NoName)

SpecRecovery == InitRecovery /\ [][NextRecovery]_vars

\* The handler of the heartbeat timeout changes the state and the child
\* process (and consumes the timer that fired), nothing else.
TimeoutFrame ==
    hist'.op = "HeartbeatTimeout" =>
        LET c == controllers[1]
            c2 == controllers'[1]
        IN  /\ c2 = [Begin(c) EXCEPT
                        !.state = c2.state,
                        !.worker_process = c2.worker_process,
                        !.heartbeat_timeout_timer = FALSE,
                        !.out_killed = c2.out_killed,
                        !.out_spawned = c2.out_spawned]
            /\ c2.state \in {"Starting", "Error"}
            /\ c2.delayed_worker_messages = c.delayed_worker_messages
            /\ c2.delayed_client_messages = c.delayed_client_messages
            /\ c2.reserved_tasks = c.reserved_tasks
            /\ c2.active_clients = c.active_clients
            /\ c2.identity = c.identity
            /\ c2.plugin = c.plugin

\* The Started of the respawned worker transmits the first buffered request
\* of a registered task, if it names the plugin recorded at the timeout, and
\* sends no plugin-setup message.
StartedAfterTimeout ==
    (hist'.op = "Started" /\ hist.crash.pending) =>
        LET c == controllers[1]
            c2 == controllers'[1]
            q == c.delayed_worker_messages
            registered == RegisteredIn(c, q)
        IN  /\ c.plugin = hist.crash.plugin
            /\ (/\ registered # {}
                /\ WorkerPlugin_from_str(q[Least(registered)].plugin) =
                       hist.crash.plugin)
               => /\ TaskMessagesOf(c2.out_worker) = <<q[Least(registered)]>>
                  /\ SetupMessagesOf(c2.out_worker) = <<>>
                  /\ c2.plugin = hist.crash.plugin

\* C38: handling a heartbeat timeout changes only the controller's state and
\* its child process; the two delayed queues, reserved_tasks, the
\* registered clients, the worker's identity and the active plugin stay as
\* they were, so that when the respawned worker reports Started a buffered
\* request that names the plugin recorded before the timeout is transmitted
\* without a plugin-setup message.
C38_RecoveryFrame == [][TimeoutFrame /\ StartedAfterTimeout]_vars

\* The worker of a controller with plugin Basic, an identity and a buffered
\* reply was recovered, and its Started has transmitted a request for Basic
\* without a plugin-setup message.
C38_Witness ==
    /\ hist.op = "Started"
    /\ hist.recovered
    /\ hist.crash.plugin = "Basic"
    /\ hist.crash.replies >= 1
    /\ controllers[1].identity = WorkerIdentity
    /\ controllers[1].plugin = "Basic"
    /\ Len(TaskMessagesOf(controllers[1].out_worker)) = 1
    /\ TaskMessagesOf(controllers[1].out_worker)[1].plugin = "basic"
    /\ SetupMessagesOf(controllers[1].out_worker) = <<>>

(***************************************************************************)
(* SpecReentry: the task tree in normal operation.  A task starts at the   *)
(* top or below a task that is in the tree and not finished; tasks in the  *)
(* tree get their terminal update, are closed and are restarted (by the    *)
(* assistant's schedule or by command); a restarted task comes back from   *)
(* the processor under its new uuid with the parent it had.  The observer  *)
(* is the one of SpecTree.                                                 *)
(***************************************************************************)
TerminalStatuses == {"FinishedSuccess", "FinishedFailure"}

NextReentry ==
    \/ \E has_controller \in BOOLEAN :
          /\ NewTask(tree.generated + 1, NoTask, has_controller)
          /\ TreeObserve("new", tree.generated + 1, "None")
    \/ \E parent \in DOMAIN tree.tasks, has_controller \in BOOLEAN :
          /\ ~task_finished(tree.tasks[parent])
          /\ NewTask(tree.generated + 1, parent, has_controller)
          /\ TreeObserve("new", tree.generated + 1, "None")
    \/ \E r \in tree.to_processor, has_controller \in BOOLEAN :
          /\ NewTask(r.uuid, r.parent, has_controller)
          /\ TreeObserve("reentry", r.uuid, "None")
    \/ \E u \in DOMAIN tree.tasks, status \in TerminalStatuses :
          TreeTaskUpdate(u, status) /\ TreeObserve("update", u, status)
    \/ \E u \in DOMAIN tree.tasks :
          TreeCloseTask(u) /\ TreeObserve("close", u, "None")
    \/ \E u \in DOMAIN tree.tasks :
          TreeRestartTask(u) /\ TreeObserve("restart", u, "None")

SpecReentry == InitTree /\ [][NextReentry]_vars

\* C39: the tree never handles a NewTask that names a parent without a record
\* in the tree; in particular a restarted child that comes back finds its
\* parent.
C39_ParentPresent == ~tree.panicked


====
